---- MODULE Spec2Model ----
(***************************************************************************)
(* A model of the React (Vite) scaffolder, src/scaffolder.js.              *)
(*                                                                         *)
(* JavaScript objects are functions from their keys (strings) to values:   *)
(* a key is undefined exactly when it is not in the DOMAIN.  The disk is a *)
(* tree of nodes; an external command changes it when its child process    *)
(* closes.  Each handler of the program (the call of scaffold, the event   *)
(* handlers of a child process, the continuation after each await) is one  *)
(* action, since a handler runs to completion on the single JS thread.     *)
(***************************************************************************)
EXTENDS Integers, Sequences, FiniteSets, TLC

VARIABLES
    process,      \* process.env and process.platform
    fs,           \* the temporary directories on disk: name -> directory node
    callers,      \* the scaffold calls the orchestrator makes
    moduleConfig, \* per call: the moduleConfig argument
    fieldValues,  \* per call: context.module.fieldValues
    pc,           \* per call: where the async function scaffold stands
    tempDir,      \* per call: the local tempDir
    child,        \* per call: the child process of the pending runCommand
    generated,    \* per call: the project tree as the generator left it
    log,          \* per call: the steps performed, in order
    promise       \* per call: the promise scaffold returned

vars == <<process, fs, callers, moduleConfig, fieldValues, pc, tempDir, child,
          generated, log, promise>>

(***************************************************************************)
(* Bounds of the model.                                                    *)
(***************************************************************************)
MaxRemove == 2
MaxData == 2
MaxChunks == 1

RunIds == {"run1", "run2"}

(***************************************************************************)
(* JavaScript objects.                                                     *)
(***************************************************************************)
EmptyObject == <<>>

Has(obj, key) == key \in DOMAIN obj

\* The spread with its operands swapped: a's value where both have the key.
SpreadTargetWins(a, b) == a @@ b

\* { ...a, ...b }: the keys of both, b's value where both have the key.
\* Spreading undefined contributes nothing.
Spread(a, b) == b @@ a

\* obj.key, or {} when it is undefined (what spreading it contributes).
SpreadOf(obj, key) == IF Has(obj, key) THEN obj[key] ELSE EmptyObject

\* delete obj[key]
Delete(obj, key) == [k \in DOMAIN obj \ {key} |-> obj[k]]

(***************************************************************************)
(* Strings.                                                                *)
(***************************************************************************)
UpperAlphabet == "ABCDEFGHIJKLMNOPQRSTUVWXYZ"
LowerAlphabet == "abcdefghijklmnopqrstuvwxyz"

\* The lower-case letter of each upper-case letter.
LowerOf ==
    [c \in {SubSeq(UpperAlphabet, i, i) : i \in 1..Len(UpperAlphabet)} |->
        LET i == CHOOSE j \in 1..Len(UpperAlphabet) : SubSeq(UpperAlphabet, j, j) = c
        IN  SubSeq(LowerAlphabet, i, i)]

LowerChar(c) == IF c \in DOMAIN LowerOf THEN LowerOf[c] ELSE c

RECURSIVE ToLower(_)
ToLower(s) ==
    IF Len(s) = 0 THEN s
    ELSE LowerChar(SubSeq(s, 1, 1)) \o ToLower(SubSeq(s, 2, Len(s)))

\* The printable characters of ASCII in the order of their codes (but for
\* the grave accent, which no string here can hold), and the place of each.
AsciiOrder ==
    " !\"#$%&'()*+,-./0123456789:;<=>?@ABCDEFGHIJKLMNOPQRSTUVWXYZ[\\]^_"
    \o "abcdefghijklmnopqrstuvwxyz{|}~"

CodeOf ==
    [c \in {SubSeq(AsciiOrder, i, i) : i \in 1..Len(AsciiOrder)} |->
        CHOOSE i \in 1..Len(AsciiOrder) : SubSeq(AsciiOrder, i, i) = c]

\* a comes before b in the order of the bytes, from the i-th character on.
RECURSIVE PrecedesFrom(_, _, _)
PrecedesFrom(a, b, i) ==
    IF i > Len(a) THEN i <= Len(b)
    ELSE IF i > Len(b) THEN FALSE
    ELSE LET x == CodeOf[SubSeq(a, i, i)]
             y == CodeOf[SubSeq(b, i, i)]
         IN  IF x = y THEN PrecedesFrom(a, b, i + 1) ELSE x < y

Precedes(a, b) == PrecedesFrom(a, b, 1)

EndsWith(s, suffix) ==
    /\ Len(s) >= Len(suffix)
    /\ SubSeq(s, Len(s) - Len(suffix) + 1, Len(s)) = suffix

(***************************************************************************)
(* The disk.  A node is a file (its data, whether reading it works and     *)
(* whether writing it works) or a directory (its entries by name, and      *)
(* whether listing it works).                                              *)
(***************************************************************************)
File(data, readable) ==
    [kind |-> "file", data |-> data, readable |-> readable, writable |-> TRUE]
Dir(items, listable) == [kind |-> "dir", items |-> items, listable |-> listable]

\* A file that cannot be opened for writing (mode 0444).
ReadOnly(file) == [file EXCEPT !.writable = FALSE]

\* File data: text, bytes that are no valid UTF-8, or the text of a JSON
\* value with its layout.
Text(id)  == [kind |-> "text", id |-> id]
Bytes(id) == [kind |-> "bytes", id |-> id]
Json(value, layout) == [kind |-> "json", value |-> value, layout |-> layout]

\* fs.existsSync(path.join(dir, name))
existsSync(dir, name) == name \in DOMAIN dir.items

\* process.platform decides path.sep, hence path.join.
pathSep(platform) == IF platform = "win32" THEN "\\" ELSE "/"
pathJoin(platform, a, b) == a \o pathSep(platform) \o b

(***************************************************************************)
(* Errors: an Error object is its name and its message.                    *)
(***************************************************************************)
Error(message) == [name |-> "Error", message |-> message]
SyntaxError(message) == [name |-> "SyntaxError", message |-> message]
ErrnoError(message) == [name |-> "Error", message |-> message]
NoError == [name |-> "", message |-> ""]

(***************************************************************************)
(* runCommand: the child process and its two event handlers.               *)
(***************************************************************************)
\* The code a 'close' event carries: a number, or null after a signal.
ExitCode(n) == [null |-> FALSE, n |-> n]
NullCode == [null |-> TRUE]

\* if (code): null is taken for 0.
NotZeroByTruthiness(code) == ~code.null /\ code.n # 0

\* code !== 0
NotStrictlyZero(code) == code.null \/ code.n # 0

\* `${code}`
CodeString(code) == IF code.null THEN "null" ELSE ToString(code.n)

NoChild == [command |-> "", promise |-> "none"]

\* The promise executor of runCommand: spawn, and a pending promise.
runCommand(platform, command, args, workingDir, description) ==
    [command     |-> command,
     cmd         |-> IF platform = "win32" THEN command \o ".cmd" ELSE command,
     args        |-> args,
     cwd         |-> workingDir,
     description |-> description,
     stdout      |-> "",
     stderr      |-> "",
     promise     |-> "pending",
     reason      |-> NoError,
     exitCode    |-> NullCode,
     closed      |-> FALSE,
     errored     |-> FALSE]

\* childProcess.stdout.on('data', ...) and childProcess.stderr.on('data', ...)
onStdoutData(c, data) == [c EXCEPT !.stdout = @ \o data]
onStderrData(c, data) == [c EXCEPT !.stderr = @ \o data]

\* The rejection that never reaches the promise.
RejectDropped(c, err) == c

\* A promise settles once: resolve and reject of a settled promise do nothing.
Resolve(c) == IF c.promise = "pending" THEN [c EXCEPT !.promise = "resolved"] ELSE c
Reject(c, err) ==
    IF c.promise = "pending"
    THEN [c EXCEPT !.promise = "rejected", !.reason = err]
    ELSE c

\* The handler that looks at no exit code.
onCloseAlwaysResolves(c, code) == Resolve(c)

\* The handler that puts the captured output into the error.
onCloseWithOutput(c, code) ==
    IF NotStrictlyZero(code)
    THEN Reject(c, Error(c.description \o " failed with exit code " \o CodeString(code)
                         \o "\n" \o c.stdout \o c.stderr))
    ELSE Resolve(c)

\* What the 'close' handler writes with console.error (lines 54-56); the
\* cross mark U+274C that opens the first line is written as its escape.
onCloseConsole(c, code) ==
    IF NotStrictlyZero(code)
    THEN <<"\\u274C " \o c.description \o " failed with code " \o CodeString(code),
           "stdout: " \o c.stdout, "stderr: " \o c.stderr>>
    ELSE <<>>

\* The handler that records its outcome in place of the one recorded before:
\* a 'close' with code 0 that follows a launch error makes the run a success.
onCloseSettlesAgain(c, code) ==
    IF NotStrictlyZero(code)
    THEN [c EXCEPT !.promise = "rejected",
                   !.reason = Error(c.description \o " failed with exit code "
                                    \o CodeString(code))]
    ELSE [c EXCEPT !.promise = "resolved", !.reason = NoError]

\* childProcess.on('close', (code) => ...)
onClose(c, code) ==
    IF NotStrictlyZero(code)
    THEN Reject(c, Error(c.description \o " failed with exit code " \o CodeString(code)))
    ELSE Resolve(c)

\* childProcess.on('error', (err) => ...)
onError(c, err) ==
    Reject(c, Error("Failed to run " \o c.command \o ": " \o err.message))

\* spawn with shell: true starts the command in a shell: /bin/sh, and on
\* Windows cmd.exe (process.env.ComSpec unset).
shellOf(platform) == IF platform = "win32" THEN "cmd.exe" ELSE "/bin/sh"

\* The error of a spawn that fails, for one because the working directory
\* is missing: it names the shell, not the command.
SpawnError(platform) == [message |-> "spawn " \o shellOf(platform) \o " ENOENT"]

\* The code of the 'close' event that follows the 'error' of a failed spawn:
\* the error number of ENOENT, which libuv defines as -4058 on Windows.
SpawnFailedCode(platform) ==
    ExitCode(IF platform = "win32" THEN 0 - 4058 ELSE 0 - 2)

\* What a child writes to its standard output and standard error, a chunk
\* at a time.
StdoutChunks == {"added 12 packages\n"}
StderrChunks == {"npm ERR! code E404\n"}

\* runViteCreate
runViteCreate(platform, workingDir, projectName, template) ==
    runCommand(platform, "npm",
               <<"create", "vite@latest", projectName, "--", "--template", template>>,
               workingDir, "Creating Vite project")

(***************************************************************************)
(* readDirectoryRecursive.                                                 *)
(***************************************************************************)
Absent == [kind |-> "absent"]

\* The node at path.join(dir, name), Absent when there is none.
Lookup(dir, name) ==
    IF dir.kind = "dir" /\ existsSync(dir, name) THEN dir.items[name] ELSE Absent

BinaryExtensions ==
    {"png", "jpg", "jpeg", "gif", "ico", "woff", "woff2", "ttf", "eot"}

\* The test without its i flag: an extension in upper case is no match.
isBinaryCaseSensitive(name) ==
    \E ext \in BinaryExtensions : EndsWith(name, "." \o ext)

\* /\.(png|jpg|jpeg|gif|ico|woff|woff2|ttf|eot)$/i.test(name)
isBinary(name) ==
    LET lower == ToLower(name)
    IN  \E ext \in BinaryExtensions : EndsWith(lower, "." \o ext)

\* fs.readFileSync(path, 'base64'): the bytes, encoded.
readBase64(data) == [encoding |-> "base64", of |-> data]

\* fs.readFileSync(path, 'utf8'): the text; bytes that are no UTF-8 decode
\* to replacement characters.
readUtf8(data) ==
    IF data.kind = "bytes" THEN [encoding |-> "utf8", of |-> Text("\\uFFFD")]
    ELSE [encoding |-> "utf8", of |-> data]

Returned(value) == [threw |-> FALSE, error |-> NoError, value |-> value]
Threw(err) == [threw |-> TRUE, error |-> err, value |-> EmptyObject]

\* files[key] = value on a plain object: the key "__proto__" sets the
\* prototype of the object and makes no property.
Assign(files, key, value) ==
    IF key = "__proto__" THEN files ELSE (key :> value) @@ files

\* The entries of a directory in the order readdirSync returns them: sorted
\* by the bytes of their names.
RECURSIVE Insert(_, _)
Insert(sorted, name) ==
    IF sorted = <<>> THEN <<name>>
    ELSE IF Precedes(name, Head(sorted)) THEN <<name>> \o sorted
    ELSE <<Head(sorted)>> \o Insert(Tail(sorted), name)

RECURSIVE readdirSync(_)
readdirSync(names) ==
    IF names = {} THEN <<>>
    ELSE LET name == CHOOSE n \in names : TRUE
         IN  Insert(readdirSync(names \ {name}), name)

RECURSIVE readDirectoryRecursive(_, _, _)
RECURSIVE ReadItems(_, _, _, _, _)

\* The loop that passes over a subdirectory it cannot list, as it passes
\* over a file it cannot read.
RECURSIVE ReadItemsSkipsUnlistable(_, _, _, _, _)
ReadItemsSkipsUnlistable(platform, dir, basePath, items, files) ==
    IF items = <<>> THEN Returned(files)
    ELSE
      LET name == Head(items)
          item == dir.items[name]
          relativePath == IF basePath # "" THEN pathJoin(platform, basePath, name)
                          ELSE name
      IN  IF item.kind = "dir"
          THEN LET sub == readDirectoryRecursive(platform, item, relativePath)
               IN  ReadItemsSkipsUnlistable(platform, dir, basePath, Tail(items),
                      IF sub.threw THEN files ELSE Spread(files, sub.value))
          ELSE IF ~item.readable
          THEN ReadItemsSkipsUnlistable(platform, dir, basePath, Tail(items), files)
          ELSE LET entry == IF isBinary(name)
                            THEN [type |-> "binary", content |-> readBase64(item.data)]
                            ELSE [type |-> "text", content |-> readUtf8(item.data)]
               IN  ReadItemsSkipsUnlistable(platform, dir, basePath, Tail(items),
                                            Assign(files, relativePath, entry))

\* The for loop of readDirectoryRecursive over items, files being the
\* accumulator.
ReadItems(platform, dir, basePath, items, files) ==
    IF items = <<>> THEN Returned(files)
    ELSE
      LET name == Head(items)
          item == dir.items[name]
          relativePath == IF basePath # "" THEN pathJoin(platform, basePath, name)
                          ELSE name
      IN  IF item.kind = "dir"
          THEN LET sub == readDirectoryRecursive(platform, item, relativePath)
               IN  IF sub.threw THEN sub
                   ELSE ReadItems(platform, dir, basePath, Tail(items),
                                  Spread(files, sub.value))
          ELSE IF ~item.readable
          THEN ReadItems(platform, dir, basePath, Tail(items), files)
          ELSE LET entry == IF isBinary(name)
                            THEN [type |-> "binary", content |-> readBase64(item.data)]
                            ELSE [type |-> "text", content |-> readUtf8(item.data)]
               IN  ReadItems(platform, dir, basePath, Tail(items),
                             Assign(files, relativePath, entry))

\* The function without its existsSync guard: readdirSync of a path that
\* does not exist throws.
readDirectoryRecursiveUnguarded(platform, node, basePath) ==
    IF node.kind = "absent"
    THEN Threw(ErrnoError("ENOENT: no such file or directory, scandir"))
    ELSE IF node.kind # "dir" THEN Threw(ErrnoError("ENOTDIR: not a directory, scandir"))
    ELSE IF ~node.listable THEN Threw(ErrnoError("EACCES: permission denied, scandir"))
    ELSE ReadItems(platform, node, basePath, readdirSync(DOMAIN node.items), EmptyObject)

readDirectoryRecursive(platform, node, basePath) ==
    IF node.kind = "absent" THEN Returned(EmptyObject)
    ELSE IF node.kind # "dir" THEN Threw(ErrnoError("ENOTDIR: not a directory, scandir"))
    ELSE IF ~node.listable THEN Threw(ErrnoError("EACCES: permission denied, scandir"))
    ELSE ReadItems(platform, node, basePath, readdirSync(DOMAIN node.items), EmptyObject)

(***************************************************************************)
(* removeFiles.                                                            *)
(***************************************************************************)
\* The loop that stops at its first removal.
RECURSIVE RemoveFirstFound(_, _)
RemoveFirstFound(files, filesToRemove) ==
    IF filesToRemove = <<>> THEN files
    ELSE LET fileToRemove == Head(filesToRemove)
         IN  IF Has(files, fileToRemove)
             THEN Delete(files, fileToRemove)
             ELSE RemoveFirstFound(files, Tail(filesToRemove))

\* The loop that ends at the first path it does not find.
RECURSIVE RemoveUntilMissing(_, _)
RemoveUntilMissing(files, filesToRemove) ==
    IF filesToRemove = <<>> THEN files
    ELSE LET fileToRemove == Head(filesToRemove)
         IN  IF Has(files, fileToRemove)
             THEN RemoveUntilMissing(Delete(files, fileToRemove), Tail(filesToRemove))
             ELSE files

\* The loop that stops one short of the end of the list.
RECURSIVE RemoveAllButLast(_, _)
RemoveAllButLast(files, filesToRemove) ==
    IF Len(filesToRemove) <= 1 THEN files
    ELSE LET fileToRemove == Head(filesToRemove)
         IN  IF Has(files, fileToRemove)
             THEN RemoveAllButLast(Delete(files, fileToRemove), Tail(filesToRemove))
             ELSE RemoveAllButLast(files, Tail(filesToRemove))

RECURSIVE RemoveEach(_, _)
RemoveEach(files, filesToRemove) ==
    IF filesToRemove = <<>> THEN files
    ELSE LET fileToRemove == Head(filesToRemove)
         IN  IF Has(files, fileToRemove)
             THEN RemoveEach(Delete(files, fileToRemove), Tail(filesToRemove))
             ELSE RemoveEach(files, Tail(filesToRemove))

removeFiles(files, filesToRemove) ==
    IF Len(filesToRemove) = 0 THEN files
    ELSE RemoveEach(files, filesToRemove)

(***************************************************************************)
(* updatePackageJson.                                                      *)
(***************************************************************************)
\* Text that is no JSON parses to an empty object instead of throwing.
JSONparseLenient(data) ==
    IF data.kind = "json" THEN Returned(data.value) ELSE Returned(EmptyObject)

\* JSON.parse of a file's text
JSONparse(data) ==
    IF data.kind = "json" THEN Returned(data.value)
    ELSE Threw(SyntaxError("Unexpected token in JSON"))

\* JSON.stringify(value, null, 2)
JSONstringify(value) == Json(value, "indent2")

\* The write that never reaches the disk.
writeFileSyncDropped(dir, name, data) == Returned(dir)

\* fs.writeFileSync(path.join(dir, name), data): a file that exists and
\* cannot be opened for writing throws and stays as it is; the readability
\* of a file that exists is kept.
writeFileSync(dir, name, data) ==
    IF existsSync(dir, name) /\ ~dir.items[name].writable
    THEN Threw(ErrnoError("EACCES: permission denied, open"))
    ELSE LET readable == IF existsSync(dir, name) THEN dir.items[name].readable
                         ELSE TRUE
         IN  Returned([dir EXCEPT !.items = (name :> File(data, readable)) @@ dir.items])

\* packageJson[group] = { ...packageJson[group], ...dependencies.npm[group] }
\* when dependencies.npm?.[group] is defined
MergeGroup(packageJson, dependencies, group) ==
    IF Has(dependencies, "npm") /\ Has(dependencies["npm"], group)
    THEN (group :> Spread(SpreadOf(packageJson, group), dependencies["npm"][group]))
         @@ packageJson
    ELSE packageJson

\* Lines 176-197: read, parse, merge both groups, write back.
mergeIntoManifest(project, packageJsonFile, dependencies) ==
    IF packageJsonFile.kind # "file"
    THEN Threw(ErrnoError("EISDIR: illegal operation on a directory, read"))
    ELSE IF ~packageJsonFile.readable
    THEN Threw(ErrnoError("EACCES: permission denied, open"))
    ELSE
      LET parsed == JSONparse(packageJsonFile.data)
      IN  IF parsed.threw THEN parsed
          ELSE
            LET withDeps == MergeGroup(parsed.value, dependencies, "dependencies")
                withDev  == MergeGroup(withDeps, dependencies, "devDependencies")
            IN  writeFileSync(project, "package.json", JSONstringify(withDev))

\* A missing manifest is reported as an error instead of being skipped.
updatePackageJsonRequiresManifest(project, dependencies) ==
    LET packageJsonFile == Lookup(project, "package.json")
    IN  IF packageJsonFile.kind = "absent"
        THEN Threw(ErrnoError("ENOENT: no such file or directory, open"))
        ELSE mergeIntoManifest(project, packageJsonFile, dependencies)

\* project is the node at projectPath; the value returned is the node after
\* the call.
updatePackageJson(project, dependencies) ==
    LET packageJsonFile == Lookup(project, "package.json")
    IN  IF packageJsonFile.kind = "absent" THEN Returned(project)
        ELSE mergeIntoManifest(project, packageJsonFile, dependencies)

(***************************************************************************)
(* scaffold: its inputs.                                                   *)
(***************************************************************************)
\* moduleConfig.generation?.files?.remove || []
filesToRemoveOf(config) ==
    IF /\ Has(config, "generation")
       /\ Has(config["generation"], "files")
       /\ Has(config["generation"]["files"], "remove")
    THEN config["generation"]["files"]["remove"]
    ELSE <<>>

\* moduleConfig.dependencies || {}
dependenciesOf(config) ==
    IF Has(config, "dependencies") THEN config["dependencies"] ELSE EmptyObject

\* The template chosen by the truthiness of useTypeScript: an absent field
\* selects the JavaScript template.
templateOfTruthy(values) ==
    IF Has(values, "useTypeScript") /\ values["useTypeScript"] = TRUE
    THEN "react-ts" ELSE "react"

\* fieldValues.useTypeScript !== false, and the template it selects
useTypeScriptOf(values) ==
    ~(Has(values, "useTypeScript") /\ values["useTypeScript"] = FALSE)
templateOf(values) == IF useTypeScriptOf(values) THEN "react-ts" ELSE "react"

\* The test of NODE_ENV alone.
isTestModeByNodeEnvOnly(environment) ==
    Has(environment, "NODE_ENV") /\ environment["NODE_ENV"] = "test"

\* process.env.NODE_ENV === 'test' || process.env.JEST_WORKER_ID !== undefined
isTestMode(environment) ==
    \/ (Has(environment, "NODE_ENV") /\ environment["NODE_ENV"] = "test")
    \/ Has(environment, "JEST_WORKER_ID")

projectName == "project"

\* The paths a removal list of the model names, and the lists themselves.
RemovablePaths == {"package.json", "LICENSE"}

RECURSIVE ListsUpTo(_, _)
ListsUpTo(S, n) ==
    IF n = 0 THEN {<<>>}
    ELSE LET shorter == ListsUpTo(S, n - 1)
         IN  shorter \cup {<<x>> \o l : x \in S, l \in {m \in shorter : Len(m) = n - 1}}

RemovalLists == ListsUpTo(RemovablePaths, MaxRemove)

DependencyChoices ==
    { [npm |-> [dependencies |-> ("axios" :> "^1.7.0")]],
      [npm |-> [dependencies    |-> ("axios" :> "^1.7.0") @@ ("lucide-react" :> "^0.400.0"),
                devDependencies |-> ("tailwindcss" :> "^4.0.0")]] }

ModuleConfigs ==
    { generation @@ dependencies :
        generation \in {EmptyObject} \cup
            { [generation |-> [files |-> [remove |-> l]]] : l \in RemovalLists },
        dependencies \in {EmptyObject} \cup
            { [dependencies |-> d] : d \in DependencyChoices } }

FieldValueChoices ==
    { EmptyObject, [useTypeScript |-> TRUE], [useTypeScript |-> FALSE] }

ProcessChoices ==
    { [env |-> e, platform |-> p] :
        e \in { [NODE_ENV |-> "test"],
                [NODE_ENV |-> "production"],
                [NODE_ENV |-> "production", JEST_WORKER_ID |-> "1"] },
        p \in {"linux", "win32"} }

(***************************************************************************)
(* The external commands: what each can leave on disk when it has run.     *)
(***************************************************************************)
ManifestObjects ==
    { [name |-> "project"],
      [name |-> "project", dependencies |-> ("react" :> "^18.3.1")],
      [name |-> "project",
       dependencies    |-> ("react" :> "^18.3.1") @@ ("axios" :> "^0.27.2"),
       devDependencies |-> ("vite" :> "^5.4.0")] }

\* The package.json a generator can leave: none, one that is no JSON, a
\* JSON object, or a JSON object in a file that cannot be written.
ManifestFiles ==
    {Absent} \cup {File(Text("{ \"name\": "), TRUE)}
             \cup {File(Json(m, "compact"), TRUE) : m \in ManifestObjects}
             \cup {ReadOnly(File(Json([name |-> "project",
                                       dependencies |-> ("react" :> "^18.3.1")],
                                      "compact"), TRUE))}

WithItem(dir, name, node) ==
    IF node.kind = "absent" THEN dir
    ELSE [dir EXCEPT !.items = (name :> node) @@ dir.items]

\* The project of a template, with the given manifest; flaw makes one file
\* unreadable or one directory unlistable.
ViteProject(template, manifest, flaw) ==
    LET typescript == template = "react-ts"
        ext == IF typescript THEN "tsx" ELSE "jsx"
        src == Dir((("main." \o ext) :> File(Text("main"), TRUE))
                   @@ (("App." \o ext) :> File(Text("app"), TRUE)),
                   flaw # "unlistable")
        public == Dir("favicon.ico" :> File(Bytes("icon"), TRUE), TRUE)
        config == "vite.config." \o (IF typescript THEN "ts" ELSE "js")
        base == ("index.html" :> File(Text("html"), flaw # "unreadable"))
                @@ ("src" :> src) @@ ("public" :> public)
                @@ (config :> File(Text("defineConfig"), TRUE))
                @@ ("README.md" :> File(Text("readme"), TRUE))
        typed == IF typescript
                 THEN ("tsconfig.json" :> File(Json([strict |-> TRUE], "indent2"), TRUE))
                      @@ ("tsconfig.node.json" :>
                             File(Json([composite |-> TRUE], "indent2"), TRUE))
                      @@ base
                 ELSE base
    IN  WithItem(Dir(typed, TRUE), "package.json", manifest)

\* What the generator can leave: the project with each manifest, and with
\* a file that cannot be read or a directory that cannot be listed beside a
\* manifest that is a JSON object.
GeneratorOutputs(template) ==
    { ViteProject(template, m, "none") : m \in ManifestFiles }
    \cup { ViteProject(template, m, flaw) :
             m \in {File(Json([name |-> "project",
                               dependencies |-> ("react" :> "^18.3.1")],
                              "compact"), TRUE)},
             flaw \in {"unreadable", "unlistable"} }

\* npm create vite: the project directory under the working directory.
ViteOutcomes(root, template, code) ==
    IF NotStrictlyZero(code)
    THEN {root, WithItem(root, projectName,
                         Dir("index.html" :> File(Text("html"), TRUE), TRUE))}
    ELSE {root} \cup {WithItem(root, projectName, p) : p \in GeneratorOutputs(template)}

\* npm install: the lock file and node_modules, in the project.
InstallOutcomes(root, code) ==
    LET project == Lookup(root, projectName)
        modules == Dir(".package-lock.json" :> File(Json([packages |-> EmptyObject],
                                                         "indent2"), TRUE), TRUE)
        installed == WithItem(WithItem(project, "node_modules", modules),
                              "package-lock.json",
                              File(Json([packages |-> EmptyObject], "indent2"), TRUE))
    IN  IF NotStrictlyZero(code) \/ project.kind # "dir" THEN {root}
        ELSE {WithItem(root, projectName, installed)}

\* npx shadcn init: components.json, and its own dependencies added to a
\* manifest it can parse.
ShadcnOutcomes(root, code) ==
    LET project == Lookup(root, projectName)
        manifest == Lookup(project, "package.json")
        parsed == IF manifest.kind = "file" THEN JSONparse(manifest.data)
                  ELSE Threw(NoError)
        written == writeFileSync(project, "package.json",
                      JSONstringify(
                        ("dependencies" :>
                           Spread(SpreadOf(parsed.value, "dependencies"),
                                  "clsx" :> "^2.1.1"))
                        @@ parsed.value))
        added == IF parsed.threw THEN project
                 ELSE IF written.threw THEN project ELSE written.value
        initialised == WithItem(added, "components.json",
                                File(Json([style |-> "default"], "indent2"), TRUE))
    IN  IF NotStrictlyZero(code) \/ project.kind # "dir" THEN {root}
        ELSE {WithItem(root, projectName, initialised)}

CommandOutcomes(c, root, code) ==
    CASE c.args[1] = "create"  -> ViteOutcomes(root, c.args[6], code)
      [] c.args[1] = "install" -> InstallOutcomes(root, code)
      [] OTHER                 -> ShadcnOutcomes(root, code)

ExitCodes == {ExitCode(0), ExitCode(1), NullCode}

TempNames == {"genesis3-vite-Ab12Cd", "genesis3-vite-Xy89Zw"}

(***************************************************************************)
(* scaffold: the body of the async function, one operator per stretch of   *)
(* code between two awaits.                                                *)
(***************************************************************************)
Ev(step, ev) == [step |-> step, ev |-> ev]

Pending == [state |-> "pending", value |-> EmptyObject, reason |-> NoError]
Resolved(value) == [state |-> "resolved", value |-> value, reason |-> NoError]
Rejected(err) == [state |-> "rejected", value |-> EmptyObject, reason |-> err]

\* The function leaves its try block: with a return value or an exception.
Leave(root, outcome, steps) ==
    [next |-> "finally", root |-> root, outcome |-> outcome, steps |-> steps,
     pc |-> "settled", child |-> NoChild]

\* The function suspends at an await of runCommand.
Await(root, at, c, steps) ==
    [next |-> "await", root |-> root, outcome |-> Pending, steps |-> steps,
     pc |-> at, child |-> c]

\* The recursion of fs.rmSync: a file is unlinked, an empty directory is
\* removed, and a directory with entries is listed and emptied entry by
\* entry, up to the first that cannot be removed; node is what is left.
RECURSIVE removeTree(_)
RECURSIVE removeEntries(_, _)
removeEntries(dir, items) ==
    IF items = <<>> THEN [threw |-> FALSE, node |-> dir]
    ELSE LET name == Head(items)
             sub == removeTree(dir.items[name])
         IN  IF sub.threw
             THEN [threw |-> TRUE, node |-> [dir EXCEPT !.items[name] = sub.node]]
             ELSE removeEntries([dir EXCEPT !.items = Delete(@, name)], Tail(items))

removeTree(node) ==
    IF node.kind # "dir" \/ DOMAIN node.items = {}
    THEN [threw |-> FALSE, node |-> Absent]
    ELSE IF ~node.listable THEN [threw |-> TRUE, node |-> node]
    ELSE LET emptied == removeEntries(node, readdirSync(DOMAIN node.items))
         IN  IF emptied.threw THEN emptied ELSE [threw |-> FALSE, node |-> Absent]

\* fs.rmSync(tempDir, { recursive: true, force: true }); fails says whether
\* the operating system refuses to remove the workspace directory; a
\* directory that is not there is no error.
rmSync(disk, dir, fails) ==
    IF dir \notin DOMAIN disk THEN [threw |-> FALSE, disk |-> disk]
    ELSE IF fails THEN [threw |-> TRUE, disk |-> disk]
    ELSE LET removed == removeTree(disk[dir])
         IN  IF removed.threw
             THEN [threw |-> TRUE, disk |-> [disk EXCEPT ![dir] = removed.node]]
             ELSE [threw |-> FALSE, disk |-> Delete(disk, dir)]

\* Lines 269-281: snapshot the project, apply the removal list, return.
CaptureAndFilter(proc, root, config) ==
    LET files == readDirectoryRecursive(proc.platform, Lookup(root, projectName), "")
    IN  IF files.threw
        THEN Leave(root, Rejected(files.error),
                   <<Ev("Capture", "start"), Ev("Capture", "failed")>>)
        ELSE Leave(root, Resolved(removeFiles(files.value, filesToRemoveOf(config))),
                   <<Ev("Capture", "start"), Ev("Capture", "ok"),
                     Ev("Filter", "start"), Ev("Filter", "ok")>>)

Prepend(steps, step) == [step EXCEPT !.steps = steps \o @]

\* Lines 236-247, then 269-281 in test mode: merge the manifest, then
\* start the install or, in test mode, snapshot and filter.
augmentAndProvision(proc, dir, root, config) ==
    LET actualProjectPath == pathJoin(proc.platform, dir, projectName)
        project == Lookup(root, projectName)
        updated == updatePackageJson(project, dependenciesOf(config))
        root1 == WithItem(root, projectName, updated.value)
        before == <<Ev("Generate", "ok"), Ev("Augment", "start")>>
    IN  IF updated.threw
        THEN Leave(root, Rejected(updated.error),
                   before \o <<Ev("Augment", "failed")>>)
        ELSE IF ~isTestMode(proc.env)
        THEN Await(root1, "awaitInstall",
                   runCommand(proc.platform, "npm", <<"install">>,
                              actualProjectPath, "Installing dependencies"),
                   before \o <<Ev("Augment", "ok"), Ev("Install", "start")>>)
        ELSE Prepend(before \o <<Ev("Augment", "ok")>>,
                     CaptureAndFilter(proc, root1, config))

\* A failed generator is started once more.
afterCreateRetries(proc, c, dir, root, config) ==
    IF c.promise = "rejected"
    THEN Await(root, "awaitCreate",
               runViteCreate(proc.platform, dir, projectName, c.args[6]),
               <<Ev("Generate", "failed"), Ev("Generate", "start")>>)
    ELSE augmentAndProvision(proc, dir, root, config)

\* The rejection of the generator's promise is not looked at.
afterCreateIgnoresFailure(proc, c, dir, root, config) ==
    augmentAndProvision(proc, dir, root, config)

\* Lines 234-247: after await runViteCreate.
afterCreate(proc, c, dir, root, config) ==
    IF c.promise = "rejected"
    THEN Leave(root, Rejected(c.reason), <<Ev("Generate", "failed")>>)
    ELSE augmentAndProvision(proc, dir, root, config)

\* The rejection of the install's promise is not looked at.
afterInstallIgnoresFailure(proc, c, dir, root) ==
    Await(root, "awaitShadcn",
          runCommand(proc.platform, "npx", <<"shadcn@latest", "init", "-d">>,
                     pathJoin(proc.platform, dir, projectName),
                     "Initializing shadcn"),
          <<Ev("Install", IF c.promise = "rejected" THEN "failed" ELSE "ok"),
            Ev("UIInit", "start")>>)

\* The UI-init command is started and not awaited: the snapshot follows at
\* once.
afterInstallWithoutAwait(proc, c, dir, root) ==
    IF c.promise = "rejected"
    THEN Leave(root, Rejected(c.reason), <<Ev("Install", "failed")>>)
    ELSE Prepend(<<Ev("Install", "ok"), Ev("UIInit", "start")>>,
                 CaptureAndFilter(proc, root, EmptyObject))

\* Lines 247-257: after await runCommand('npm', ['install'], ...).
afterInstall(proc, c, dir, root) ==
    IF c.promise = "rejected"
    THEN Leave(root, Rejected(c.reason), <<Ev("Install", "failed")>>)
    ELSE Await(root, "awaitShadcn",
               runCommand(proc.platform, "npx", <<"shadcn@latest", "init", "-d">>,
                          pathJoin(proc.platform, dir, projectName),
                          "Initializing shadcn"),
               <<Ev("Install", "ok"), Ev("UIInit", "start")>>)

\* The failure of the UI-init command is not caught.
afterShadcnUncaught(proc, c, root, config) ==
    IF c.promise = "rejected"
    THEN Leave(root, Rejected(c.reason), <<Ev("UIInit", "failed")>>)
    ELSE Prepend(<<Ev("UIInit", "ok")>>, CaptureAndFilter(proc, root, config))

\* Lines 258-281: after await runCommand('npx', ...), resolved or caught.
afterShadcn(proc, c, root, config) ==
    Prepend(<<Ev("UIInit", IF c.promise = "rejected" THEN "failed" ELSE "ok")>>,
            CaptureAndFilter(proc, root, config))

(***************************************************************************)
(* The state machine.                                                      *)
(***************************************************************************)
Init ==
    /\ process \in ProcessChoices
    /\ fs = EmptyObject
    /\ callers = {"run1"}
    /\ \E m \in ModuleConfigs :
          moduleConfig = [r \in RunIds |-> IF r \in callers THEN m ELSE EmptyObject]
    /\ \E v \in FieldValueChoices :
          fieldValues = [r \in RunIds |-> IF r \in callers THEN v ELSE EmptyObject]
    /\ pc = [r \in RunIds |-> "idle"]
    /\ tempDir = [r \in RunIds |-> ""]
    /\ child = [r \in RunIds |-> NoChild]
    /\ generated = [r \in RunIds |-> Absent]
    /\ log = [r \in RunIds |-> <<>>]
    /\ promise = [r \in RunIds |-> Pending]

\* The workspace is one fixed directory under os.tmpdir(), made if missing.
CallSharedDir(r) ==
    /\ r \in callers
    /\ pc[r] = "idle"
    /\ \E dir \in {"genesis3-vite-Ab12Cd"} :
          /\ fs' = IF dir \in DOMAIN fs THEN fs ELSE (dir :> Dir(EmptyObject, TRUE)) @@ fs
          /\ tempDir' = [tempDir EXCEPT ![r] = dir]
          /\ child' = [child EXCEPT ![r] =
                 runViteCreate(process.platform, dir, projectName,
                               templateOf(fieldValues[r]))]
    /\ pc' = [pc EXCEPT ![r] = "awaitCreate"]
    /\ log' = [log EXCEPT ![r] =
          <<Ev("Init", "start"), Ev("Init", "ok"), Ev("Generate", "start")>>]
    /\ UNCHANGED <<process, callers, moduleConfig, fieldValues, generated, promise>>

\* Lines 210-234: the call of scaffold, up to its first await.  mkdtempSync
\* (line 228) stands before the try block: when it throws, for one because
\* os.tmpdir() is missing, the promise rejects and no finally block runs.
Call(r) ==
    /\ r \in callers
    /\ pc[r] = "idle"
    /\ \/ \E dir \in TempNames \ DOMAIN fs :
             /\ fs' = (dir :> Dir(EmptyObject, TRUE)) @@ fs
             /\ tempDir' = [tempDir EXCEPT ![r] = dir]
             /\ child' = [child EXCEPT ![r] =
                    runViteCreate(process.platform, dir, projectName,
                                  templateOf(fieldValues[r]))]
             /\ pc' = [pc EXCEPT ![r] = "awaitCreate"]
             /\ log' = [log EXCEPT ![r] =
                    <<Ev("Init", "start"), Ev("Init", "ok"), Ev("Generate", "start")>>]
             /\ UNCHANGED promise
       \/ /\ pc' = [pc EXCEPT ![r] = "settled"]
          /\ log' = [log EXCEPT ![r] = <<Ev("Init", "start"), Ev("Init", "failed")>>]
          /\ promise' = [promise EXCEPT ![r] =
                 Rejected(ErrnoError("ENOENT: no such file or directory, mkdtemp"))]
          /\ UNCHANGED <<fs, tempDir, child>>
    /\ UNCHANGED <<process, callers, moduleConfig, fieldValues, generated>>

\* The directory under os.tmpdir() that a working directory lies in: a
\* child process writes where spawn's cwd option put it.
workspaceOf(cwd) ==
    CHOOSE dir \in TempNames : Len(cwd) >= Len(dir) /\ SubSeq(cwd, 1, Len(dir)) = dir

Awaiting(r) == pc[r] \in {"awaitCreate", "awaitInstall", "awaitShadcn"}

\* The working directory of a child is there: the workspace, or the
\* project directory in it.
cwdExists(disk, c) ==
    LET dir == workspaceOf(c.cwd)
    IN  /\ dir \in DOMAIN disk
        /\ c.cwd # dir => Lookup(disk[dir], projectName).kind = "dir"

\* The child process, spawned in a working directory that is there, ends
\* and emits 'close'; what it wrote is on disk.
ChildClose(r) ==
    /\ Awaiting(r)
    /\ ~child[r].closed
    /\ ~child[r].errored
    /\ cwdExists(fs, child[r])
    /\ \E code \in ExitCodes :
         \E root \in CommandOutcomes(child[r], fs[workspaceOf(child[r].cwd)], code) :
            /\ fs' = [fs EXCEPT ![workspaceOf(child[r].cwd)] = root]
            /\ child' = [child EXCEPT ![r] =
                   [onClose(@, code) EXCEPT !.closed = TRUE, !.exitCode = code]]
            /\ generated' = [generated EXCEPT ![r] =
                   IF pc[r] = "awaitCreate" THEN Lookup(root, projectName) ELSE @]
    /\ UNCHANGED <<process, callers, moduleConfig, fieldValues, pc, tempDir, log,
                   promise>>

\* The child writes to its standard output, before its 'close'.
ChildStdout(r) ==
    /\ Awaiting(r)
    /\ ~child[r].closed
    /\ ~child[r].errored
    /\ cwdExists(fs, child[r])
    /\ \E data \in StdoutChunks :
          /\ Len(child[r].stdout) < MaxChunks * Len(data)
          /\ child' = [child EXCEPT ![r] = onStdoutData(@, data)]
    /\ UNCHANGED <<process, fs, callers, moduleConfig, fieldValues, pc, tempDir,
                   generated, log, promise>>

\* The child writes to its standard error, before its 'close'.
ChildStderr(r) ==
    /\ Awaiting(r)
    /\ ~child[r].closed
    /\ ~child[r].errored
    /\ cwdExists(fs, child[r])
    /\ \E data \in StderrChunks :
          /\ Len(child[r].stderr) < MaxChunks * Len(data)
          /\ child' = [child EXCEPT ![r] = onStderrData(@, data)]
    /\ UNCHANGED <<process, fs, callers, moduleConfig, fieldValues, pc, tempDir,
                   generated, log, promise>>

\* The spawn fails and the child emits 'error': no process ran and nothing
\* was written.  The 'close' event that follows, with the error number of
\* the platform as its code, finds the promises of runCommand and of
\* scaffold settled.
ChildError(r) ==
    /\ Awaiting(r)
    /\ ~child[r].closed
    /\ ~child[r].errored
    /\ child' = [child EXCEPT ![r] =
          [onError(@, SpawnError(process.platform)) EXCEPT !.errored = TRUE]]
    /\ UNCHANGED <<process, fs, callers, moduleConfig, fieldValues, pc, tempDir,
                   generated, log, promise>>

\* The cleanup at the end of the try block instead of in a finally block: an
\* exception skips it.
CleanupOnReturnOnly(r, step) ==
    \E fails \in BOOLEAN :
       LET disk == [fs EXCEPT ![tempDir[r]] = step.root]
           removed == rmSync(disk, tempDir[r], fails)
           returns == step.outcome.state = "resolved"
       IN  /\ fs' = IF returns THEN removed.disk ELSE disk
           /\ log' = [log EXCEPT ![r] = @ \o step.steps \o
                 IF returns
                 THEN <<Ev("Cleanup", "start"),
                        Ev("Cleanup", IF removed.threw THEN "failed" ELSE "ok")>>
                 ELSE <<>>]
           /\ promise' = [promise EXCEPT ![r] = step.outcome]

\* The exception of rmSync leaves the finally block and replaces the outcome.
FinallyCleanupFatal(r, step) ==
    \E fails \in BOOLEAN :
       LET removed == rmSync([fs EXCEPT ![tempDir[r]] = step.root], tempDir[r], fails)
       IN  /\ fs' = removed.disk
           /\ log' = [log EXCEPT ![r] = @ \o step.steps \o
                 <<Ev("Cleanup", "start"),
                   Ev("Cleanup", IF removed.threw THEN "failed" ELSE "ok")>>]
           /\ promise' = [promise EXCEPT ![r] =
                 IF removed.threw
                 THEN Rejected(ErrnoError("EBUSY: resource busy or locked, rmdir"))
                 ELSE step.outcome]

\* The finally block (lines 283-290), then the promise of scaffold settles.
Finally(r, step) ==
    \E fails \in BOOLEAN :
       LET removed == rmSync([fs EXCEPT ![tempDir[r]] = step.root], tempDir[r], fails)
       IN  /\ fs' = removed.disk
           /\ log' = [log EXCEPT ![r] = @ \o step.steps \o
                 <<Ev("Cleanup", "start"),
                   Ev("Cleanup", IF removed.threw THEN "failed" ELSE "ok")>>]
           /\ promise' = [promise EXCEPT ![r] = step.outcome]

\* The continuation of scaffold runs to its next await or to its end.
Continue(r, step) ==
    /\ IF step.next = "finally" THEN Finally(r, step)
       ELSE /\ fs' = [fs EXCEPT ![tempDir[r]] = step.root]
            /\ log' = [log EXCEPT ![r] = @ \o step.steps]
            /\ UNCHANGED promise
    /\ pc' = [pc EXCEPT ![r] = step.pc]
    /\ child' = [child EXCEPT ![r] = step.child]
    /\ UNCHANGED <<process, callers, moduleConfig, fieldValues, tempDir, generated>>

ResumeAfterCreate(r) ==
    /\ pc[r] = "awaitCreate"
    /\ child[r].promise # "pending"
    /\ Continue(r, afterCreate(process, child[r], tempDir[r], fs[tempDir[r]],
                               moduleConfig[r]))

ResumeAfterInstall(r) ==
    /\ pc[r] = "awaitInstall"
    /\ child[r].promise # "pending"
    /\ Continue(r, afterInstall(process, child[r], tempDir[r], fs[tempDir[r]]))

ResumeAfterShadcn(r) ==
    /\ pc[r] = "awaitShadcn"
    /\ child[r].promise # "pending"
    /\ Continue(r, afterShadcn(process, child[r], fs[tempDir[r]], moduleConfig[r]))

Next ==
    \E r \in RunIds :
       \/ Call(r)
       \/ ChildStdout(r)
       \/ ChildStderr(r)
       \/ ChildClose(r)
       \/ ChildError(r)
       \/ ResumeAfterCreate(r)
       \/ ResumeAfterInstall(r)
       \/ ResumeAfterShadcn(r)

Spec == Init /\ [][Next]_vars

(***************************************************************************)
(* Vocabulary of the properties.                                           *)
(***************************************************************************)
Did(l, step, ev) == \E i \in 1..Len(l) : l[i] = Ev(step, ev)
Began(l, step) == Did(l, step, "start")

Settled(r) == pc[r] = "settled"

\* The continuation of scaffold after call r's pending await runs in this step.
Resumes(r) == Awaiting(r) /\ pc'[r] # pc[r]

\* The fast/test-mode flag, as the specification words it.
TestFlag ==
    \/ ("NODE_ENV" \in DOMAIN process.env /\ process.env["NODE_ENV"] = "test")
    \/ "JEST_WORKER_ID" \in DOMAIN process.env

StepOrder ==
    <<"Init", "Generate", "Augment", "Install", "UIInit", "Capture", "Filter",
      "Cleanup">>
StepIndex(step) == CHOOSE i \in 1..Len(StepOrder) : StepOrder[i] = step

\* What is left of a tree is as it was: entries are gone, none is new or
\* changed.
RECURSIVE Remains(_, _)
Remains(after, before) ==
    \/ after = before
    \/ /\ after.kind = "dir" /\ before.kind = "dir"
       /\ after.listable = before.listable
       /\ DOMAIN after.items \subseteq DOMAIN before.items
       /\ \A name \in DOMAIN after.items :
             Remains(after.items[name], before.items[name])

\* Nothing was written to the workspace of call r: what Cleanup left of it
\* is as it was.
WorkspaceUntouched(r) ==
    tempDir[r] \in DOMAIN fs' => Remains(fs'[tempDir[r]], fs[tempDir[r]])

\* mkdtempSync returned: the workspace of call r was made.
WorkspaceCreated(r) == Did(log[r], "Init", "ok")

Range(l) == {l[i] : i \in 1..Len(l)}

\* The messages of the errors runCommand can reject with, per command.
GenerateErrors ==
    {"Creating Vite project failed with exit code " \o CodeString(code) :
        code \in ExitCodes \ {ExitCode(0)}}
    \cup {"Failed to run npm: spawn /bin/sh ENOENT",
          "Failed to run npm: spawn cmd.exe ENOENT"}

InstallErrors ==
    {"Installing dependencies failed with exit code " \o CodeString(code) :
        code \in ExitCodes \ {ExitCode(0)}}
    \cup {"Failed to run npm: spawn /bin/sh ENOENT",
          "Failed to run npm: spawn cmd.exe ENOENT"}

\* The package.json of the project in a workspace, and a group of an object.
ManifestOf(root) == Lookup(Lookup(root, projectName), "package.json")

GroupOf(obj, group) == IF group \in DOMAIN obj THEN obj[group] ELSE <<>>

(***************************************************************************)
(* C1.  As claimed: whatever the outcome of scaffold, the temporary        *)
(* workspace made at the start of the run no longer exists once the        *)
(* returned promise has settled.                                           *)
(***************************************************************************)
C1_WorkspaceGoneWhenSettled ==
    \A r \in RunIds :
       Settled(r) /\ WorkspaceCreated(r) => tempDir[r] \notin DOMAIN fs

(***************************************************************************)
(* C1, amended.  Whatever the outcome of a run that made its workspace,    *)
(* the removal of the workspace has been attempted once the promise has    *)
(* settled, and the workspace exists then exactly when that removal itself *)
(* failed; until the promise settles the workspace exists.  A run whose    *)
(* workspace could not be made rejects with nothing to remove.             *)
(***************************************************************************)
C1_CleanupAttemptedOnEveryOutcome ==
    \A r \in RunIds :
       /\ Settled(r) /\ WorkspaceCreated(r) =>
            /\ Began(log[r], "Cleanup")
            /\ promise[r].state \in {"resolved", "rejected"}
            /\ (tempDir[r] \in DOMAIN fs) <=> Did(log[r], "Cleanup", "failed")
       /\ Settled(r) /\ ~WorkspaceCreated(r) =>
            /\ ~Began(log[r], "Cleanup")
            /\ promise[r].state = "rejected"
            /\ tempDir[r] = ""
       /\ Awaiting(r) => tempDir[r] \in DOMAIN fs /\ ~Began(log[r], "Cleanup")

C1_Witness ==
    \E r \in RunIds :
       /\ Settled(r)
       /\ promise[r].state = "rejected"
       /\ Did(log[r], "Augment", "failed")
       /\ Did(log[r], "Cleanup", "ok")
       /\ tempDir[r] \notin DOMAIN fs

(***************************************************************************)
(* C2.  The steps of a run happen in the order Init, Generate, Augment,    *)
(* Install, UIInit, Capture, Filter, Cleanup: a step begins only when the  *)
(* step begun before it has ended, install begins only after Generate has  *)
(* succeeded, the snapshot begins only after Augment has succeeded and,    *)
(* outside test mode, install has succeeded and UI-init has ended; a step  *)
(* that failed, other than UI-init, is followed by Cleanup alone; nothing  *)
(* follows the end of Cleanup, and no child process is left then.          *)
(***************************************************************************)
C2_StepsInFixedOrder ==
    \A r \in RunIds :
       LET l == log[r]
       IN  /\ \A i \in 1..Len(l) :
                 /\ l[i].ev = "start" /\ i < Len(l) =>
                       l[i + 1].step = l[i].step /\ l[i + 1].ev \in {"ok", "failed"}
                 /\ l[i].ev # "start" =>
                       /\ i > 1 /\ l[i - 1] = Ev(l[i].step, "start")
                       /\ i < Len(l) =>
                             \/ l[i].ev = "ok"
                             \/ l[i].step = "UIInit"
                             \/ l[i + 1].step = "Cleanup"
                 /\ l[i].step = "Cleanup" /\ l[i].ev # "start" => i = Len(l)
           /\ \A i, j \in 1..Len(l) :
                 i < j /\ l[i].ev = "start" /\ l[j].ev = "start" =>
                    StepIndex(l[i].step) < StepIndex(l[j].step)
           /\ Began(l, "Install") => Did(l, "Generate", "ok")
           /\ Began(l, "Capture") =>
                 /\ Did(l, "Augment", "ok")
                 /\ ~TestFlag =>
                       /\ Did(l, "Install", "ok")
                       /\ Did(l, "UIInit", "ok") \/ Did(l, "UIInit", "failed")
           /\ Began(l, "Cleanup") => Settled(r) /\ child[r] = NoChild

C2_Witness ==
    \E r \in RunIds :
       /\ ~TestFlag
       /\ Settled(r)
       /\ Did(log[r], "UIInit", "ok")
       /\ Did(log[r], "Filter", "ok")
       /\ Did(log[r], "Cleanup", "ok")

(***************************************************************************)
(* C3.  When the scaffolding command has failed (its promise rejected, by  *)
(* a nonzero exit code or a launch error), the continuation of scaffold    *)
(* merges no manifest, starts no install, no UI-init, no snapshot and no   *)
(* removal, writes nothing to the workspace, runs Cleanup, and rejects     *)
(* with the error of that command.                                         *)
(***************************************************************************)
C3_GenerateFailureAborts ==
    [][\A r \in RunIds :
          pc[r] = "awaitCreate" /\ child[r].promise = "rejected" /\ Resumes(r) =>
             /\ pc'[r] = "settled"
             /\ promise'[r] = Rejected(child[r].reason)
             /\ child[r].reason.message \in GenerateErrors
             /\ \A step \in {"Augment", "Install", "UIInit", "Capture", "Filter"} :
                   ~Began(log'[r], step)
             /\ WorkspaceUntouched(r)
             /\ Began(log'[r], "Cleanup")
             /\ Did(log'[r], "Cleanup", "ok") => tempDir[r] \notin DOMAIN fs']_vars

C3_Witness ==
    \E r \in RunIds :
       /\ Settled(r)
       /\ Did(log[r], "Generate", "failed")
       /\ promise[r].state = "rejected"
       /\ promise[r].reason.message = "Creating Vite project failed with exit code 1"

(***************************************************************************)
(* C4.  When the install command has failed, the continuation of scaffold  *)
(* never invokes the UI-init command, takes no snapshot, runs Cleanup,     *)
(* and rejects with the install error.                                     *)
(***************************************************************************)
C4_InstallFailureAborts ==
    [][\A r \in RunIds :
          pc[r] = "awaitInstall" /\ child[r].promise = "rejected" /\ Resumes(r) =>
             /\ pc'[r] = "settled"
             /\ child'[r] = NoChild
             /\ promise'[r] = Rejected(child[r].reason)
             /\ child[r].reason.message \in InstallErrors
             /\ \A step \in {"UIInit", "Capture", "Filter"} : ~Began(log'[r], step)
             /\ Began(log'[r], "Cleanup")]_vars

C4_Witness ==
    \E r \in RunIds :
       /\ Settled(r)
       /\ Did(log[r], "Install", "failed")
       /\ promise[r].state = "rejected"
       /\ promise[r].reason.message = "Installing dependencies failed with exit code 1"

(***************************************************************************)
(* C5.  As claimed: when the UI-init command has failed, the run still     *)
(* proceeds to Capture and Filter and scaffold resolves.                   *)
(***************************************************************************)
C5_UIInitFailureAlwaysResolves ==
    [][\A r \in RunIds :
          pc[r] = "awaitShadcn" /\ child[r].promise = "rejected" /\ Resumes(r) =>
             /\ Began(log'[r], "Capture")
             /\ Did(log'[r], "Filter", "ok")
             /\ promise'[r].state = "resolved"]_vars

(***************************************************************************)
(* C5, amended.  When the UI-init command has failed, the failure is       *)
(* caught: the run proceeds to Capture and never rejects with the UI-init  *)
(* error; unless the snapshot itself throws, Filter runs and scaffold      *)
(* resolves with the snapshot less the removal list; when the snapshot     *)
(* throws, scaffold rejects with the snapshot's error.                     *)
(***************************************************************************)
C5_UIInitFailureIsCaught ==
    [][\A r \in RunIds :
          pc[r] = "awaitShadcn" /\ child[r].promise = "rejected" /\ Resumes(r) =>
             LET snapshot == readDirectoryRecursive(process.platform,
                                Lookup(fs[tempDir[r]], projectName), "")
             IN  /\ Did(log'[r], "UIInit", "failed")
                 /\ Began(log'[r], "Capture")
                 /\ promise'[r].reason # child[r].reason
                 /\ IF snapshot.threw
                    THEN /\ promise'[r] = Rejected(snapshot.error)
                         /\ ~Began(log'[r], "Filter")
                    ELSE /\ Did(log'[r], "Filter", "ok")
                         /\ promise'[r] =
                               Resolved(removeFiles(snapshot.value,
                                                    filesToRemoveOf(moduleConfig[r])))]_vars

C5_Witness ==
    \E r \in RunIds :
       /\ Settled(r)
       /\ Did(log[r], "Install", "ok")
       /\ Did(log[r], "UIInit", "failed")
       /\ Did(log[r], "Filter", "ok")
       /\ promise[r].state = "resolved"
       /\ "package-lock.json" \in DOMAIN promise[r].value

(***************************************************************************)
(* C6.  As claimed: with the test-mode flag set, neither the install nor   *)
(* the UI-init command is ever invoked, and a run that returns, returns a  *)
(* FileMap that is not empty.                                              *)
(***************************************************************************)
C6_TestModeReturnsNonEmpty ==
    TestFlag =>
       \A r \in RunIds :
          /\ ~Began(log[r], "Install") /\ ~Began(log[r], "UIInit")
          /\ promise[r].state = "resolved" => DOMAIN promise[r].value # {}

(***************************************************************************)
(* C6, amended.  With the test-mode flag set (NODE_ENV is 'test' or        *)
(* JEST_WORKER_ID is defined), neither the install nor the UI-init command *)
(* is ever invoked: the only child process is the generator's.  A run that *)
(* returns, returns the snapshot of the generator's output with the merged *)
(* manifest, less the removal list; it is not empty whenever that snapshot *)
(* holds a file the removal list does not name.                            *)
(***************************************************************************)
C6_TestModeSkipsProvision ==
    TestFlag =>
       \A r \in RunIds :
          /\ ~Began(log[r], "Install") /\ ~Began(log[r], "UIInit")
          /\ pc[r] \notin {"awaitInstall", "awaitShadcn"}
          /\ child[r] # NoChild => child[r].args[1] = "create"
          /\ promise[r].state = "resolved" =>
                LET remove == filesToRemoveOf(moduleConfig[r])
                    merged == updatePackageJson(generated[r],
                                                dependenciesOf(moduleConfig[r]))
                    snapshot == readDirectoryRecursive(process.platform,
                                                       merged.value, "")
                IN  /\ ~merged.threw /\ ~snapshot.threw
                    /\ DOMAIN promise[r].value = DOMAIN snapshot.value \ Range(remove)
                    /\ \A key \in DOMAIN promise[r].value :
                          promise[r].value[key] = snapshot.value[key]
                    /\ ~(DOMAIN snapshot.value \subseteq Range(remove)) =>
                          DOMAIN promise[r].value # {}

C6_Witness ==
    \E r \in RunIds :
       /\ "JEST_WORKER_ID" \in DOMAIN process.env
       /\ process.env["NODE_ENV"] # "test"
       /\ Settled(r)
       /\ promise[r].state = "resolved"
       /\ "index.html" \in DOMAIN promise[r].value

(***************************************************************************)
(* C7.  When the manifest the generator left is no valid JSON, the merge   *)
(* throws before anything is written: the workspace, the manifest in it,   *)
(* is as it was; no install, UI-init, snapshot or removal follows; Cleanup *)
(* runs, and scaffold rejects with the parse error.                        *)
(***************************************************************************)
C7_InvalidManifestAborts ==
    [][\A r \in RunIds :
          /\ pc[r] = "awaitCreate" /\ child[r].promise = "resolved" /\ Resumes(r)
          /\ ManifestOf(fs[tempDir[r]]).kind = "file"
          /\ ManifestOf(fs[tempDir[r]]).readable
          /\ ManifestOf(fs[tempDir[r]]).data.kind # "json"
          => /\ pc'[r] = "settled"
             /\ promise'[r].state = "rejected"
             /\ promise'[r].reason.name = "SyntaxError"
             /\ WorkspaceUntouched(r)
             /\ Did(log'[r], "Augment", "failed")
             /\ \A step \in {"Install", "UIInit", "Capture", "Filter"} :
                   ~Began(log'[r], step)
             /\ Began(log'[r], "Cleanup")]_vars

C7_Witness ==
    \E r \in RunIds :
       /\ Settled(r)
       /\ promise[r].state = "rejected"
       /\ promise[r].reason.name = "SyntaxError"
       /\ Did(log[r], "Cleanup", "failed")
       /\ tempDir[r] \in DOMAIN fs
       /\ ManifestOf(fs[tempDir[r]]) = Lookup(generated[r], "package.json")
       /\ ManifestOf(fs[tempDir[r]]).kind = "file"

(***************************************************************************)
(* C8.  When the generated project has no manifest, the merge writes       *)
(* nothing and raises no error, and the run goes on as after a merge:      *)
(* outside test mode the install command is started, in test mode the      *)
(* snapshot is taken, and a rejection can only be the snapshot's.          *)
(***************************************************************************)
C8_MissingManifestIsSkipped ==
    [][\A r \in RunIds :
          /\ pc[r] = "awaitCreate" /\ child[r].promise = "resolved" /\ Resumes(r)
          /\ ManifestOf(fs[tempDir[r]]).kind = "absent"
          => /\ Did(log'[r], "Augment", "ok")
             /\ WorkspaceUntouched(r)
             /\ IF TestFlag
                THEN /\ Began(log'[r], "Capture")
                     /\ promise'[r].state = "rejected" =>
                           Did(log'[r], "Capture", "failed")
                     /\ promise'[r].state = "resolved" =>
                           Did(log'[r], "Filter", "ok")
                ELSE /\ pc'[r] = "awaitInstall"
                     /\ child'[r].args = <<"install">>
                     /\ child'[r].promise = "pending"
                     /\ promise'[r] = Pending
                     /\ fs'[tempDir[r]] = fs[tempDir[r]]]_vars

C8_Witness ==
    \E r \in RunIds :
       /\ generated[r].kind = "dir"
       /\ Lookup(generated[r], "package.json").kind = "absent"
       /\ Did(log[r], "Augment", "ok")
       /\ Did(log[r], "Install", "ok")
       /\ Did(log[r], "Filter", "ok")
       /\ promise[r].state = "resolved"
       /\ "package.json" \notin DOMAIN promise[r].value

(***************************************************************************)
(* C10.  In a run that returns, whose generated project has a manifest the *)
(* removal list does not name, the returned FileMap has the manifest, as   *)
(* JSON text, and its dependencies and devDependencies hold every name of  *)
(* the same group of moduleConfig.dependencies.npm.                        *)
(***************************************************************************)
C10_ReturnedManifestIsMerged ==
    \A r \in RunIds :
       /\ promise[r].state = "resolved"
       /\ Lookup(generated[r], "package.json").kind = "file"
       /\ "package.json" \notin Range(filesToRemoveOf(moduleConfig[r]))
       => /\ "package.json" \in DOMAIN promise[r].value
          /\ promise[r].value["package.json"].type = "text"
          /\ LET text == promise[r].value["package.json"].content.of
                 incoming == dependenciesOf(moduleConfig[r])
             IN  /\ text.kind = "json"
                 /\ \A group \in {"dependencies", "devDependencies"} :
                       "npm" \in DOMAIN incoming /\ group \in DOMAIN incoming["npm"] =>
                          /\ group \in DOMAIN text.value
                          /\ DOMAIN incoming["npm"][group] \subseteq
                                DOMAIN text.value[group]

C10_Witness ==
    \E r \in RunIds :
       /\ ~TestFlag
       /\ promise[r].state = "resolved"
       /\ Lookup(generated[r], "package.json").kind = "file"
       /\ "dependencies" \notin DOMAIN Lookup(generated[r], "package.json").data.value
       /\ "package.json" \in DOMAIN promise[r].value
       /\ "dependencies" \in DOMAIN promise[r].value["package.json"].content.of.value
       /\ "lucide-react" \in
             DOMAIN promise[r].value["package.json"].content.of.value["dependencies"]

(***************************************************************************)
(* C11.  The generator is started with template 'react-ts' when            *)
(* fieldValues.useTypeScript is true or absent and with 'react' only when  *)
(* it is false.  When the generator has left its project and the run       *)
(* returns, the FileMap of a TypeScript run holds tsconfig.json and the    *)
(* .tsx entry point and no .jsx file, and the FileMap of a JavaScript run  *)
(* holds the .jsx entry point and neither a .tsx file nor tsconfig.json    *)
(* (a path the removal list names aside).                                  *)
(***************************************************************************)
C11_TemplateFollowsUseTypeScript ==
    \A r \in RunIds :
       LET explicitFalse == /\ "useTypeScript" \in DOMAIN fieldValues[r]
                            /\ fieldValues[r]["useTypeScript"] = FALSE
           remove == Range(filesToRemoveOf(moduleConfig[r]))
           keys == DOMAIN promise[r].value
           entry(ext) == pathJoin(process.platform, "src", "main." \o ext)
       IN  /\ pc[r] = "awaitCreate" =>
                /\ child[r].args[1] = "create"
                /\ child[r].args[5] = "--template"
                /\ child[r].args[6] = IF explicitFalse THEN "react" ELSE "react-ts"
           /\ promise[r].state = "resolved" /\ generated[r].kind = "dir" =>
                IF explicitFalse
                THEN /\ entry("jsx") \in keys \cup remove
                     /\ \A k \in keys : ~EndsWith(k, ".tsx") /\ ~EndsWith(k, "tsconfig.json")
                ELSE /\ entry("tsx") \in keys \cup remove
                     /\ "tsconfig.json" \in keys \cup remove
                     /\ \A k \in keys : ~EndsWith(k, ".jsx")

C11_Witness ==
    \E r \in RunIds :
       /\ fieldValues[r] = [useTypeScript |-> FALSE]
       /\ process.platform = "linux"
       /\ promise[r].state = "resolved"
       /\ "src/main.jsx" \in DOMAIN promise[r].value
       /\ "tsconfig.json" \notin DOMAIN promise[r].value

(***************************************************************************)
(* updatePackageJson on its own: every manifest over two packages and two  *)
(* versions, merged with every DependencyGroups value over the same.       *)
(***************************************************************************)
MergePackages == {"a", "b"}
MergeVersions == {"1.0.0", "2.0.0"}

DependencyMaps == UNION {[names -> MergeVersions] : names \in SUBSET MergePackages}

\* An object with each of the two groups present or not.
GroupObjects ==
    { deps @@ dev :
        deps \in {EmptyObject} \cup {[dependencies |-> m] : m \in DependencyMaps},
        dev  \in {EmptyObject} \cup {[devDependencies |-> m] : m \in DependencyMaps} }

MergeManifestFiles ==
    {Absent} \cup {File(Text("{ \"name\": "), TRUE)}
             \cup {File(Json([name |-> "project"] @@ g, "compact"), TRUE) :
                      g \in GroupObjects}
             \cup {ReadOnly(File(Json([name |-> "project"] @@ g, "compact"), TRUE)) :
                      g \in GroupObjects}

MergeConfigs ==
    {EmptyObject} \cup {[dependencies |-> EmptyObject]}
                  \cup {[dependencies |-> [npm |-> g]] : g \in GroupObjects}

InitMerge ==
    /\ process = [env |-> [NODE_ENV |-> "production"], platform |-> "linux"]
    /\ callers = {"run1"}
    /\ \E dir \in TempNames, manifest \in MergeManifestFiles, config \in MergeConfigs :
          LET project == WithItem(Dir("index.html" :> File(Text("html"), TRUE), TRUE),
                                  "package.json", manifest)
          IN  /\ fs = dir :> Dir(projectName :> project, TRUE)
              /\ tempDir = [r \in RunIds |-> IF r \in callers THEN dir ELSE ""]
              /\ generated = [r \in RunIds |-> IF r \in callers THEN project ELSE Absent]
              /\ moduleConfig =
                    [r \in RunIds |-> IF r \in callers THEN config ELSE EmptyObject]
    /\ fieldValues = [r \in RunIds |-> EmptyObject]
    /\ pc = [r \in RunIds |-> IF r \in callers THEN "merge" ELSE "idle"]
    /\ child = [r \in RunIds |-> NoChild]
    /\ log = [r \in RunIds |-> <<>>]
    /\ promise = [r \in RunIds |-> Pending]

\* Line 240: updatePackageJson(actualProjectPath, moduleConfig.dependencies || {})
Merge(r) ==
    /\ pc[r] = "merge"
    /\ LET updated == updatePackageJson(Lookup(fs[tempDir[r]], projectName),
                                        dependenciesOf(moduleConfig[r]))
       IN  /\ fs' = IF updated.threw THEN fs
                    ELSE [fs EXCEPT ![tempDir[r]] =
                             WithItem(@, projectName, updated.value)]
           /\ pc' = [pc EXCEPT ![r] = IF updated.threw THEN "mergeThrew" ELSE "merged"]
    /\ UNCHANGED <<process, callers, moduleConfig, fieldValues, tempDir, child,
                   generated, log, promise>>

NextMerge == \E r \in RunIds : Merge(r)

SpecMerge == InitMerge /\ [][NextMerge]_vars

(***************************************************************************)
(* C9.  The merge into a manifest that is a JSON object and can be written *)
(* goes through, and after it each of dependencies and devDependencies is  *)
(* the union of the manifest's old mapping and the incoming one (an        *)
(* undefined mapping counting as empty): its names are those of the two,   *)
(* every incoming name has the incoming version, every other name keeps    *)
(* its old version; the other keys of the manifest are as they were.  The  *)
(* merge into a manifest that cannot be written throws and leaves it.      *)
(***************************************************************************)
C9_MergeIsUnionIncomingWins ==
    \A r \in RunIds :
       LET manifest == Lookup(generated[r], "package.json")
           merging == /\ pc[r] \in {"merged", "mergeThrew"}
                      /\ manifest.kind = "file"
                      /\ manifest.data.kind = "json"
       IN  /\ (merging /\ ~manifest.writable) =>
                  (/\ pc[r] = "mergeThrew"
                   /\ ManifestOf(fs[tempDir[r]]) = manifest)
           /\ (merging /\ manifest.writable) =>
                  (/\ pc[r] = "merged"
                   /\ ManifestOf(fs[tempDir[r]]).kind = "file"
                   /\ ManifestOf(fs[tempDir[r]]).data.kind = "json"
                   /\ LET old == manifest.data.value
                          new == ManifestOf(fs[tempDir[r]]).data.value
                          config == moduleConfig[r]
                          npm == IF "dependencies" \in DOMAIN config
                                 THEN GroupOf(config["dependencies"], "npm") ELSE <<>>
                          groups == {"dependencies", "devDependencies"}
                      IN  /\ \A group \in groups :
                                LET before   == GroupOf(old, group)
                                    incoming == GroupOf(npm, group)
                                    after    == GroupOf(new, group)
                                IN  /\ DOMAIN after = DOMAIN before \cup DOMAIN incoming
                                    /\ \A name \in DOMAIN incoming :
                                          after[name] = incoming[name]
                                    /\ \A name \in DOMAIN before \ DOMAIN incoming :
                                          after[name] = before[name]
                          /\ DOMAIN new \ groups = DOMAIN old \ groups
                          /\ \A key \in DOMAIN old \ groups : new[key] = old[key])

C9_Witness ==
    \E r \in RunIds :
       /\ pc[r] = "merged"
       /\ Lookup(generated[r], "package.json").kind = "file"
       /\ Lookup(generated[r], "package.json").data.kind = "json"
       /\ GroupOf(Lookup(generated[r], "package.json").data.value, "dependencies")
             = ("a" :> "2.0.0") @@ ("b" :> "2.0.0")
       /\ moduleConfig[r] = [dependencies |-> [npm |-> [dependencies |-> ("a" :> "1.0.0")]]]
       /\ ManifestOf(fs[tempDir[r]]).data.value["dependencies"]
             = ("a" :> "1.0.0") @@ ("b" :> "2.0.0")

(***************************************************************************)
(* readDirectoryRecursive and removeFiles on their own: the snapshot of    *)
(* every directory tree of a family, then the removal list applied to the  *)
(* FileMap in hand, once and once more.                                    *)
(***************************************************************************)
\* File names with each extension of the pattern, in either case, and names
\* the pattern does not match.
SnapshotNames ==
    {"a.png", "a.jpg", "a.jpeg", "a.gif", "favicon.ico", "a.woff", "a.woff2",
     "a.ttf", "a.eot", "LOGO.PNG", "Photo.JpEg", ".gif", "a.tar.ico",
     "notes.txt", "ico", "a.png.txt", "a.pngx", "a.svg", "main.tsx", "Makefile"}

\* A directory of one file, whatever its bytes.
FlatRoots ==
    { Dir(name :> File(data, TRUE), TRUE) :
        name \in SnapshotNames, data \in {Text("text"), Bytes("bytes")} }

\* The files of a directory: none, a.txt and b.png, each readable or not,
\* and a.txt beside a file of the name __proto__.
FileParts ==
    { EmptyObject,
      "a.txt" :> File(Text("a"), TRUE),
      "a.txt" :> File(Text("a"), FALSE),
      ("a.txt" :> File(Text("a"), TRUE))  @@ ("b.png" :> File(Bytes("b"), TRUE)),
      ("a.txt" :> File(Text("a"), FALSE)) @@ ("b.png" :> File(Bytes("b"), TRUE)),
      ("a.txt" :> File(Text("a"), TRUE))  @@ ("b.png" :> File(Bytes("b"), FALSE)),
      ("a.txt" :> File(Text("a"), TRUE))  @@ ("__proto__" :> File(Text("zz"), TRUE)) }

\* A directory without subdirectories: none, empty, of one file, or one
\* that cannot be listed.
LeafDirs ==
    { Absent, Dir(EmptyObject, TRUE), Dir("b.png" :> File(Bytes("b"), TRUE), TRUE),
      Dir("b.png" :> File(Bytes("b"), TRUE), FALSE) }

\* root / { files, src / { files, assets / ... }, public / ... }
NestedRoots ==
    LET SrcDirs == {Absent, Dir(EmptyObject, FALSE)} \cup
                   { WithItem(Dir(files, TRUE), "assets", assets) :
                       files \in FileParts, assets \in LeafDirs }
    IN  { WithItem(WithItem(Dir(files, TRUE), "src", src), "public", public) :
            files \in FileParts, src \in SrcDirs, public \in LeafDirs }

SnapshotRoots == {Absent} \cup FlatRoots \cup NestedRoots

\* The removal lists: absent, or a list over a path at the root, a path in
\* a subdirectory and a path of no file.
SnapshotRemovable == {"a.txt", "src/a.txt", "missing.txt"}

SnapshotConfigs ==
    {EmptyObject} \cup
    { [generation |-> [files |-> [remove |-> l]]] :
        l \in ListsUpTo(SnapshotRemovable, MaxRemove) }

\* A step that ended with a FileMap in hand.
Kept(step, files) == [step |-> step, ev |-> "ok", files |-> files]

InitSnapshot ==
    /\ process \in { [env |-> [NODE_ENV |-> "production"], platform |-> p] :
                       p \in {"linux", "win32"} }
    /\ callers = {"run1"}
    /\ \E project \in SnapshotRoots, config \in SnapshotConfigs :
          LET dir == CHOOSE d \in TempNames : TRUE
          IN  /\ fs = dir :> WithItem(Dir(EmptyObject, TRUE), projectName, project)
              /\ tempDir = [r \in RunIds |-> IF r \in callers THEN dir ELSE ""]
              /\ generated = [r \in RunIds |-> IF r \in callers THEN project ELSE Absent]
              /\ moduleConfig =
                    [r \in RunIds |-> IF r \in callers THEN config ELSE EmptyObject]
    /\ fieldValues = [r \in RunIds |-> EmptyObject]
    /\ pc = [r \in RunIds |-> IF r \in callers THEN "capture" ELSE "idle"]
    /\ child = [r \in RunIds |-> NoChild]
    /\ log = [r \in RunIds |-> <<>>]
    /\ promise = [r \in RunIds |-> Pending]

\* Line 271: const files = readDirectoryRecursive(actualProjectPath)
Snapshot(r) ==
    /\ pc[r] = "capture"
    /\ LET files == readDirectoryRecursive(process.platform,
                                           Lookup(fs[tempDir[r]], projectName), "")
       IN  IF files.threw
           THEN /\ promise' = [promise EXCEPT ![r] = Rejected(files.error)]
                /\ log' = [log EXCEPT ![r] = Append(@, Ev("Capture", "failed"))]
                /\ pc' = [pc EXCEPT ![r] = "captureThrew"]
           ELSE /\ promise' = [promise EXCEPT ![r] = Resolved(files.value)]
                /\ log' = [log EXCEPT ![r] = Append(@, Kept("Capture", files.value))]
                /\ pc' = [pc EXCEPT ![r] = "captured"]
    /\ UNCHANGED <<process, fs, callers, moduleConfig, fieldValues, tempDir, child,
                   generated>>

\* Lines 276-277: removeFiles(files, filesToRemove), on the FileMap in hand.
Remove(r) ==
    /\ pc[r] \in {"captured", "filtered"}
    /\ LET cleanedFiles == removeFiles(promise[r].value,
                                       filesToRemoveOf(moduleConfig[r]))
       IN  /\ promise' = [promise EXCEPT ![r] = Resolved(cleanedFiles)]
           /\ log' = [log EXCEPT ![r] = Append(@, Kept("Filter", cleanedFiles))]
    /\ pc' = [pc EXCEPT ![r] = IF pc[r] = "captured" THEN "filtered" ELSE "filteredTwice"]
    /\ UNCHANGED <<process, fs, callers, moduleConfig, fieldValues, tempDir, child,
                   generated>>

NextSnapshot == \E r \in RunIds : Snapshot(r) \/ Remove(r)

SpecSnapshot == InitSnapshot /\ [][NextSnapshot]_vars

\* The files under a directory at any depth: each with its path relative to
\* the root, the names that lead to it, and the node.
RECURSIVE FilesUnder(_, _, _, _)
FilesUnder(platform, node, base, trail) ==
    IF node.kind # "dir" THEN {}
    ELSE UNION
      { LET item == node.items[name]
            path == IF base = "" THEN name ELSE base \o pathSep(platform) \o name
        IN  IF item.kind = "dir"
            THEN FilesUnder(platform, item, path, Append(trail, name))
            ELSE {[path |-> path, trail |-> Append(trail, name), name |-> name,
                   node |-> item]}
        : name \in DOMAIN node.items }

\* The paths of the directories under a directory, at any depth.
RECURSIVE DirsUnder(_, _, _)
DirsUnder(platform, node, base) ==
    IF node.kind # "dir" THEN {}
    ELSE UNION
      { LET item == node.items[name]
            path == IF base = "" THEN name ELSE base \o pathSep(platform) \o name
        IN  IF item.kind = "dir"
            THEN {path} \cup DirsUnder(platform, item, path)
            ELSE {}
        : name \in DOMAIN node.items }

\* Every directory of the tree can be listed.
RECURSIVE AllListable(_)
AllListable(node) ==
    node.kind = "dir" =>
       /\ node.listable
       /\ \A name \in DOMAIN node.items : AllListable(node.items[name])

\* The part of a name after its last dot, "" when it has no dot.
RECURSIVE ExtensionOf(_)
ExtensionOf(name) ==
    IF Len(name) = 0 THEN ""
    ELSE LET rest == ExtensionOf(SubSeq(name, 2, Len(name)))
             hasDot == \E i \in 2..Len(name) : SubSeq(name, i, i) = "."
         IN  IF hasDot THEN rest
             ELSE IF SubSeq(name, 1, 1) = "." THEN SubSeq(name, 2, Len(name))
             ELSE ""

\* The FileMap the snapshot and the removals of call r ended with, in order.
KeptBy(r, step) == SelectSeq(log[r], LAMBDA e : e.step = step /\ e.ev = "ok")

(***************************************************************************)
(* C12.  removeFiles is idempotent: for every FileMap a snapshot returns   *)
(* and every removal list, the FileMap after the list has been applied a   *)
(* second time is the FileMap after it was applied once.                   *)
(***************************************************************************)
C12_RemoveFilesIdempotent ==
    \A r \in RunIds :
       pc[r] = "filteredTwice" =>
          LET kept == KeptBy(r, "Filter")
          IN  /\ Len(kept) = 2
              /\ kept[2].files = kept[1].files
              /\ promise[r].value = kept[1].files

C12_Witness ==
    \E r \in RunIds :
       /\ pc[r] = "filteredTwice"
       /\ filesToRemoveOf(moduleConfig[r]) = <<"a.txt", "src/a.txt">>
       /\ {"a.txt", "src/a.txt", "b.png"} \subseteq DOMAIN KeptBy(r, "Capture")[1].files
       /\ "b.png" \in DOMAIN promise[r].value
       /\ "a.txt" \notin DOMAIN promise[r].value
       /\ "src/a.txt" \notin DOMAIN promise[r].value

(***************************************************************************)
(* C13.  For every FileMap a snapshot returns and every removal list, the  *)
(* keys of the result of removeFiles are the keys of the input that the    *)
(* list does not name, and each of them has the entry, encoding and        *)
(* content, it had in the input; with an empty or absent list the result   *)
(* is the input.                                                           *)
(***************************************************************************)
C13_RemoveFilesFrame ==
    \A r \in RunIds :
       pc[r] = "filtered" =>
          LET input == KeptBy(r, "Capture")[1].files
              output == promise[r].value
              config == moduleConfig[r]
              listed == "generation" \in DOMAIN config
              named == IF listed
                       THEN {config["generation"]["files"]["remove"][i] :
                               i \in 1..Len(config["generation"]["files"]["remove"])}
                       ELSE {}
          IN  /\ DOMAIN output = DOMAIN input \ named
              /\ \A key \in DOMAIN output :
                    /\ output[key].type = input[key].type
                    /\ output[key].content = input[key].content
              /\ named = {} => output = input

C13_Witness ==
    \E r \in RunIds :
       /\ pc[r] = "filtered"
       /\ filesToRemoveOf(moduleConfig[r]) = <<"src/a.txt", "missing.txt">>
       /\ {"a.txt", "src/a.txt"} \subseteq DOMAIN KeptBy(r, "Capture")[1].files
       /\ "a.txt" \in DOMAIN promise[r].value
       /\ "src/a.txt" \notin DOMAIN promise[r].value

(***************************************************************************)
(* C14.  When the removal list names a path that is no file of the         *)
(* project, beside paths that are, or names a path twice, the run whose    *)
(* snapshot was taken still returns: the removal ends without error and    *)
(* the FileMap returned holds every captured file the list does not name   *)
(* and none it names.                                                      *)
(***************************************************************************)
C14_AbsentPathIsNotFatal ==
    [][\A r \in RunIds :
          Resumes(r) /\ Did(log'[r], "Capture", "ok") =>
             LET list == filesToRemoveOf(moduleConfig[r])
                 named == Range(list)
                 captured == {f.path : f \in
                                {g \in FilesUnder(process.platform,
                                                  Lookup(fs[tempDir[r]], projectName),
                                                  "", <<>>) : g.node.readable}}
             IN  named \ captured # {} \/ Len(list) > Cardinality(named) =>
                    /\ Did(log'[r], "Filter", "ok")
                    /\ promise'[r].state = "resolved"
                    /\ DOMAIN promise'[r].value = captured \ named]_vars

C14_Witness ==
    \E r \in RunIds :
       /\ Settled(r)
       /\ promise[r].state = "resolved"
       /\ filesToRemoveOf(moduleConfig[r]) = <<"LICENSE", "package.json">>
       /\ Lookup(generated[r], "package.json").kind = "file"
       /\ Lookup(generated[r], "LICENSE").kind = "absent"
       /\ "package.json" \notin DOMAIN promise[r].value
       /\ "index.html" \in DOMAIN promise[r].value

(***************************************************************************)
(* C15.  Every file a snapshot captures has a binary entry exactly when    *)
(* the part of its name after the last dot is, in either case, one of png, *)
(* jpg, jpeg, gif, ico, woff, woff2, ttf, eot, and a text entry otherwise, *)
(* whatever its bytes and wherever it lies: a binary entry holds the bytes *)
(* in base64, a text entry holds them decoded as UTF-8.                    *)
(***************************************************************************)
C15_BinaryByExtensionAlone ==
    \A r \in RunIds :
       pc[r] = "captured" =>
          \A f \in FilesUnder(process.platform, generated[r], "", <<>>) :
             f.node.readable /\ f.path \in DOMAIN promise[r].value =>
                LET entry == promise[r].value[f.path]
                    listed == ToLower(ExtensionOf(f.name)) \in
                                 {"png", "jpg", "jpeg", "gif", "ico", "woff", "woff2",
                                  "ttf", "eot"}
                IN  /\ entry.type = IF listed THEN "binary" ELSE "text"
                    /\ entry.content.encoding = IF listed THEN "base64" ELSE "utf8"
                    /\ listed => entry.content.of = f.node.data

C15_Witness ==
    \E r \in RunIds :
       /\ pc[r] = "captured"
       /\ "LOGO.PNG" \in DOMAIN promise[r].value
       /\ promise[r].value["LOGO.PNG"].type = "binary"
       /\ promise[r].value["LOGO.PNG"].content.of = Text("text")

(***************************************************************************)
(* C16.  The keys of a snapshot are exactly the root-relative paths of the *)
(* readable files at any depth under the root: no path of a directory,     *)
(* empty or not, is a key, every readable file has one key, and two        *)
(* different files never have the same key.                                *)
(***************************************************************************)
C16_KeysAreTheReadableFiles ==
    \A r \in RunIds :
       pc[r] = "captured" =>
          LET files == FilesUnder(process.platform, generated[r], "", <<>>)
              readable == {f \in files : f.node.readable}
              keys == DOMAIN promise[r].value
          IN  /\ keys = {f.path : f \in readable}
              /\ keys \cap DirsUnder(process.platform, generated[r], "") = {}
              /\ \A f, g \in readable : f.path = g.path => f.trail = g.trail
              /\ Cardinality(keys) = Cardinality({f.trail : f \in readable})

(***************************************************************************)
(* C17.  When files under the root cannot be read and every directory can  *)
(* be listed, the snapshot still returns: the files that cannot be read    *)
(* have no key, and every readable file, in the same directory or in       *)
(* another, has its key.                                                   *)
(***************************************************************************)
C17_UnreadableFileIsSkipped ==
    \A r \in RunIds :
       LET files == FilesUnder(process.platform, generated[r], "", <<>>)
       IN  /\ pc[r] \in {"captured", "captureThrew"}
           /\ AllListable(generated[r])
           /\ \E f \in files : ~f.node.readable
           => /\ pc[r] = "captured"
              /\ promise[r].state = "resolved"
              /\ \A f \in files :
                    f.path \in DOMAIN promise[r].value <=> f.node.readable

(***************************************************************************)
(* C18.  The snapshot of a root path that does not exist returns the empty *)
(* FileMap and throws nothing.                                             *)
(***************************************************************************)
C18_MissingRootIsEmpty ==
    \A r \in RunIds :
       /\ pc[r] \in {"captured", "captureThrew"}
       /\ generated[r].kind = "absent"
       => /\ pc[r] = "captured"
          /\ promise[r] = Resolved(EmptyObject)

C18_Witness ==
    \E r \in RunIds :
       /\ pc[r] = "captured"
       /\ ~existsSync(fs[tempDir[r]], projectName)
       /\ DOMAIN promise[r].value = {}

(***************************************************************************)
(* runCommand on its own: each command of scaffold, the output its child   *)
(* writes, its 'close' event, and the 'error' and 'close' of a failed      *)
(* spawn.                                                                  *)
(***************************************************************************)
\* An event of the child process as its handler saw it, and the lines the
\* handler wrote with console.error.
Event(name, detail, console) == [event |-> name, detail |-> detail, console |-> console]

\* The codes the 'close' event of a child that ran can carry: those of the
\* runs of scaffold and further exit codes of a shell.
CloseCodes == ExitCodes \cup {ExitCode(2), ExitCode(127), ExitCode(255)}

InitCommand ==
    /\ process \in { [env |-> [NODE_ENV |-> "production"], platform |-> p] :
                       p \in {"linux", "win32"} }
    /\ callers = {"run1"}
    /\ LET dir == CHOOSE d \in TempNames : TRUE
           project == pathJoin(process.platform, dir, projectName)
       IN  /\ fs = dir :> Dir(projectName :> Dir(EmptyObject, TRUE), TRUE)
           /\ tempDir = [r \in RunIds |-> IF r \in callers THEN dir ELSE ""]
           /\ \E c \in { runViteCreate(process.platform, dir, projectName, t) :
                           t \in {"react-ts", "react"} }
                  \cup { runCommand(process.platform, "npm", <<"install">>, project,
                                    "Installing dependencies"),
                         runCommand(process.platform, "npx",
                                    <<"shadcn@latest", "init", "-d">>, project,
                                    "Initializing shadcn") } :
                 child = [r \in RunIds |-> IF r \in callers THEN c ELSE NoChild]
    /\ moduleConfig = [r \in RunIds |-> EmptyObject]
    /\ fieldValues = [r \in RunIds |-> EmptyObject]
    /\ pc = [r \in RunIds |-> IF r \in callers THEN "command" ELSE "idle"]
    /\ generated = [r \in RunIds |-> Absent]
    /\ log = [r \in RunIds |-> <<>>]
    /\ promise = [r \in RunIds |-> Pending]

DataEvents(l) == SelectSeq(l, LAMBDA e : e.event \in {"stdout", "stderr"})

\* The child writes to its standard output.
StdoutData(r) ==
    /\ pc[r] = "command"
    /\ ~child[r].closed
    /\ ~child[r].errored
    /\ Len(DataEvents(log[r])) < MaxData
    /\ \E data \in StdoutChunks :
          /\ child' = [child EXCEPT ![r] = onStdoutData(@, data)]
          /\ log' = [log EXCEPT ![r] = Append(@, Event("stdout", data, <<>>))]
    /\ UNCHANGED <<process, fs, callers, moduleConfig, fieldValues, pc, tempDir,
                   generated, promise>>

\* The child writes to its standard error.
StderrData(r) ==
    /\ pc[r] = "command"
    /\ ~child[r].closed
    /\ ~child[r].errored
    /\ Len(DataEvents(log[r])) < MaxData
    /\ \E data \in StderrChunks :
          /\ child' = [child EXCEPT ![r] = onStderrData(@, data)]
          /\ log' = [log EXCEPT ![r] = Append(@, Event("stderr", data, <<>>))]
    /\ UNCHANGED <<process, fs, callers, moduleConfig, fieldValues, pc, tempDir,
                   generated, promise>>

\* The child emits 'close': with its exit code, and with the error number
\* after the 'error' of a failed spawn.
CommandClose(r) ==
    /\ pc[r] = "command"
    /\ ~child[r].closed
    /\ \E code \in (IF child[r].errored THEN {SpawnFailedCode(process.platform)} ELSE CloseCodes) :
          /\ child' = [child EXCEPT ![r] =
                 [onClose(@, code) EXCEPT !.closed = TRUE, !.exitCode = code]]
          /\ log' = [log EXCEPT ![r] =
                       Append(@, Event("close", code, onCloseConsole(child[r], code)))]
    /\ UNCHANGED <<process, fs, callers, moduleConfig, fieldValues, pc, tempDir,
                   generated, promise>>

\* The spawn fails and the child emits 'error', before any other event.
CommandError(r) ==
    /\ pc[r] = "command"
    /\ ~child[r].errored
    /\ log[r] = <<>>
    /\ LET err == SpawnError(process.platform)
       IN  /\ child' = [child EXCEPT ![r] = [onError(@, err) EXCEPT !.errored = TRUE]]
           /\ log' = [log EXCEPT ![r] = Append(@, Event("error", err, <<>>))]
    /\ UNCHANGED <<process, fs, callers, moduleConfig, fieldValues, pc, tempDir,
                   generated, promise>>

NextCommand ==
    \E r \in RunIds :
       \/ StdoutData(r)
       \/ StderrData(r)
       \/ CommandClose(r)
       \/ CommandError(r)

SpecCommand == InitCommand /\ [][NextCommand]_vars

\* The 'close' and 'error' events handled so far, in order.
SettlingEvents(l) == SelectSeq(l, LAMBDA e : e.event \in {"close", "error"})

\* The data of a sequence of events, one after the other.
RECURSIVE Joined(_)
Joined(events) ==
    IF events = <<>> THEN "" ELSE Head(events).detail \o Joined(Tail(events))

\* sub occurs in s.
Contains(s, sub) ==
    \E i \in 1..(Len(s) - Len(sub) + 1) : SubSeq(s, i, i + Len(sub) - 1) = sub

StartsWith(s, prefix) ==
    Len(s) >= Len(prefix) /\ SubSeq(s, 1, Len(prefix)) = prefix

\* An error carries a text: as the value of a field or within its message.
Carries(err, text) ==
    \/ \E field \in DOMAIN err : err[field] = text
    \/ Contains(err.message, text)

(***************************************************************************)
(* C19.  When the child ends without an 'error' event before its 'close',  *)
(* the promise of runCommand resolves exactly when the exit code is 0 and  *)
(* rejects for every other code with 'failed with exit code'; when the     *)
(* executable cannot be spawned the promise rejects with 'Failed to run',  *)
(* an error that is none of the exit-code errors.  Until one of the two    *)
(* events the promise is pending.                                          *)
(***************************************************************************)
C19_SuccessIsExitCodeZero ==
    \A r \in RunIds :
       pc[r] = "command" =>
          LET events == SettlingEvents(log[r])
              c == child[r]
              exitText == c.description \o " failed with exit code "
          IN  IF events = <<>> THEN c.promise = "pending"
              ELSE IF events[1].event = "close"
              THEN LET code == events[1].detail
                   IN  /\ c.promise = "resolved" <=> code = ExitCode(0)
                       /\ code # ExitCode(0) =>
                             /\ c.promise = "rejected"
                             /\ c.reason.message =
                                   exitText \o (IF code.null THEN "null"
                                                ELSE ToString(code.n))
                             /\ ~StartsWith(c.reason.message, "Failed to run")
              ELSE /\ c.promise = "rejected"
                   /\ c.reason.message =
                         "Failed to run " \o c.command \o ": " \o events[1].detail.message
                   /\ ~Contains(c.reason.message, "failed with exit code")

C19_Witness ==
    \E r \in RunIds :
       /\ pc[r] = "command"
       /\ child[r].closed /\ ~child[r].errored
       /\ child[r].promise = "rejected"
       /\ child[r].reason.message = "Installing dependencies failed with exit code 1"

(***************************************************************************)
(* C20.  As claimed: when a command has exited with a nonzero code, the    *)
(* error that runCommand rejects with carries the exit code and the text   *)
(* the child wrote to its standard output and to its standard error.       *)
(***************************************************************************)
C20_ErrorCarriesCodeAndOutput ==
    \A r \in RunIds :
       pc[r] = "command" =>
          LET events == SettlingEvents(log[r])
              c == child[r]
          IN  /\ events # <<>>
              /\ events[1].event = "close"
              /\ events[1].detail # ExitCode(0)
              => /\ c.promise = "rejected"
                 /\ Carries(c.reason, CodeString(events[1].detail))
                 /\ Carries(c.reason, c.stdout)
                 /\ Carries(c.reason, c.stderr)

(***************************************************************************)
(* C20, amended.  When a command has exited with a nonzero code, the error *)
(* that runCommand rejects with is an Error of a message alone, which      *)
(* names the step and the exit code: whatever the child wrote to its       *)
(* standard output and standard error is no part of the error, and is      *)
(* written with console.error by the 'close' handler.                      *)
(***************************************************************************)
C20_ErrorCarriesCodeOnly ==
    \A r \in RunIds :
       pc[r] = "command" =>
          LET events == SettlingEvents(log[r])
              c == child[r]
              written(stream) ==
                 Joined(SelectSeq(log[r], LAMBDA e : e.event = stream))
          IN  /\ events # <<>>
              /\ events[1].event = "close"
              /\ events[1].detail # ExitCode(0)
              => /\ c.promise = "rejected"
                 /\ DOMAIN c.reason = {"name", "message"}
                 /\ c.reason.name = "Error"
                 /\ c.reason.message =
                       c.description \o " failed with exit code "
                                     \o CodeString(events[1].detail)
                 /\ c.stdout = written("stdout") /\ c.stderr = written("stderr")
                 /\ c.stdout # "" => ~Carries(c.reason, c.stdout)
                 /\ c.stderr # "" => ~Carries(c.reason, c.stderr)
                 /\ events[1].console =
                       <<"\\u274C " \o c.description \o " failed with code "
                                                 \o CodeString(events[1].detail),
                         "stdout: " \o c.stdout, "stderr: " \o c.stderr>>

C20_Witness ==
    \E r \in RunIds :
       /\ pc[r] = "command"
       /\ child[r].closed /\ ~child[r].errored
       /\ child[r].promise = "rejected"
       /\ child[r].stdout = "added 12 packages\n"
       /\ child[r].stderr = "npm ERR! code E404\n"
       /\ child[r].reason = Error("Installing dependencies failed with exit code 127")

(***************************************************************************)
(* Vocabulary of the later properties.                                     *)
(***************************************************************************)
\* How often an entry occurs in a log.
Count(l, entry) == Len(SelectSeq(l, LAMBDA e : e = entry))

\* The step whose command call r awaits.
AwaitedStep(r) ==
    CASE pc[r] = "awaitCreate"  -> "Generate"
      [] pc[r] = "awaitInstall" -> "Install"
      [] pc[r] = "awaitShadcn"  -> "UIInit"
      [] OTHER                  -> ""

\* Call r is under way: scaffold was called and its promise is not settled.
InProgress(r) == pc[r] \notin {"idle", "settled"}

(***************************************************************************)
(* C21.  As claimed: in every run, whatever the outcomes, the generator is *)
(* started exactly once, and the install command and the UI-init command   *)
(* at most once each.                                                      *)
(***************************************************************************)
C21_GeneratorStartedExactlyOnce ==
    \A r \in RunIds :
       /\ pc[r] # "idle" => Count(log[r], Ev("Generate", "start")) = 1
       /\ Count(log[r], Ev("Install", "start")) <= 1
       /\ Count(log[r], Ev("UIInit", "start")) <= 1

(***************************************************************************)
(* C21, amended.  No command is started a second time: in every run,       *)
(* whatever the outcomes, the generator is started exactly once when the   *)
(* workspace was made and never when it could not be made, and the install *)
(* command and the UI-init command at most once each; the one child        *)
(* process in flight is that of the step started last.                     *)
(***************************************************************************)
C21_NoCommandIsRetried ==
    \A r \in RunIds :
       /\ Count(log[r], Ev("Generate", "start")) = IF WorkspaceCreated(r) THEN 1 ELSE 0
       /\ Count(log[r], Ev("Install", "start")) <= 1
       /\ Count(log[r], Ev("UIInit", "start")) <= 1
       /\ Awaiting(r) =>
             /\ log[r][Len(log[r])] = Ev(AwaitedStep(r), "start")
             /\ child[r].args[1] = CASE pc[r] = "awaitCreate"  -> "create"
                                     [] pc[r] = "awaitInstall" -> "install"
                                     [] OTHER                  -> "shadcn@latest"
       /\ ~Awaiting(r) => child[r] = NoChild

C21_Witness ==
    \E r \in RunIds :
       /\ Settled(r)
       /\ Did(log[r], "Generate", "ok")
       /\ Did(log[r], "Install", "failed")
       /\ Count(log[r], Ev("Generate", "start")) = 1
       /\ Count(log[r], Ev("Install", "start")) = 1
       /\ Count(log[r], Ev("UIInit", "start")) = 0

(***************************************************************************)
(* C22.  A failure to delete the temporary workspace is swallowed: in the  *)
(* step that settles a run whose Cleanup failed, the workspace is left on  *)
(* the disk, and the outcome is the one the run had before Cleanup.  A run *)
(* that got through Filter resolves with the snapshot of the project as it *)
(* was in the workspace before Cleanup, after the manifest merge, less the *)
(* removal list; a run that failed rejects with the error of its failed   *)
(* step: the rejection reason of the awaited command for Generate and      *)
(* Install, what the manifest merge threw for Augment, what the snapshot   *)
(* threw for Capture.                                                      *)
(***************************************************************************)
C22_CleanupFailureIsSwallowed ==
    [][\A r \in RunIds :
          (Resumes(r) /\ Did(log'[r], "Cleanup", "failed")) =>
             /\ Settled(r)'
             /\ tempDir[r] \in DOMAIN fs'
             /\ LET l == log'[r]
                    before == Lookup(fs[tempDir[r]], projectName)
                    merged == updatePackageJson(before, dependenciesOf(moduleConfig[r]))
                    project == IF pc[r] = "awaitCreate" /\ ~merged.threw
                               THEN merged.value ELSE before
                    files == readDirectoryRecursive(process.platform, project, "")
                IN  IF Did(l, "Filter", "ok")
                    THEN \E kept \in {files} :
                            /\ ~kept.threw
                            /\ promise'[r] =
                                  Resolved(removeFiles(kept.value,
                                                       filesToRemoveOf(moduleConfig[r])))
                    ELSE /\ promise'[r].state = "rejected"
                         /\ promise'[r].value = EmptyObject
                         /\ \/ /\ Did(l, "Generate", "failed") \/ Did(l, "Install", "failed")
                               /\ child[r].promise = "rejected"
                               /\ promise'[r].reason = child[r].reason
                            \/ /\ Did(l, "Augment", "failed")
                               /\ merged.threw /\ promise'[r].reason = merged.error
                            \/ /\ Did(l, "Capture", "failed")
                               /\ files = Threw(promise'[r].reason)]_vars

C22_Witness ==
    \E r \in RunIds :
       /\ Settled(r)
       /\ Did(log[r], "Install", "failed")
       /\ Did(log[r], "Cleanup", "failed")
       /\ tempDir[r] \in DOMAIN fs
       /\ promise[r] = Rejected(Error("Installing dependencies failed with exit code 1"))

(***************************************************************************)
(* Two calls of scaffold in one process: the second is made while the      *)
(* first is suspended at an await, and their continuations and the events  *)
(* of their child processes interleave in any order.                       *)
(***************************************************************************)
ConcurrentConfig ==
    [generation |-> [files |-> [remove |-> <<"LICENSE">>]],
     dependencies |-> [npm |-> [dependencies |-> ("axios" :> "^1.7.0")]]]

InitConcurrent ==
    /\ process \in { [env |-> [NODE_ENV |-> "production"], platform |-> "linux"],
                     [env |-> [NODE_ENV |-> "test"], platform |-> "win32"] }
    /\ fs = EmptyObject
    /\ callers = RunIds
    /\ moduleConfig = [r \in RunIds |-> ConcurrentConfig]
    /\ fieldValues = [r \in RunIds |->
          IF r = "run1" THEN EmptyObject ELSE [useTypeScript |-> FALSE]]
    /\ pc = [r \in RunIds |-> "idle"]
    /\ tempDir = [r \in RunIds |-> ""]
    /\ child = [r \in RunIds |-> NoChild]
    /\ generated = [r \in RunIds |-> Absent]
    /\ log = [r \in RunIds |-> <<>>]
    /\ promise = [r \in RunIds |-> Pending]

SpecConcurrent == InitConcurrent /\ [][Next]_vars

\* A step of call r: its continuation runs or its child process emits an event.
StepOf(r) == pc'[r] # pc[r] \/ child'[r] # child[r]

\* The directories a workspace may hold for a command of the given template
\* to have been the only writer: nothing, the debris of a failed generator,
\* or a project of that template, merged, installed and initialised or not.
OwnProject(root, template) ==
    LET project == Lookup(root, projectName)
    IN  \/ project = Absent
        \/ /\ project.kind = "dir"
           /\ \/ DOMAIN project.items = {"index.html"}
              \/ ("tsconfig.json" \in DOMAIN project.items) <=> (template = "react-ts")

(***************************************************************************)
(* C23.  Two concurrent runs never share a workspace.  While both are in   *)
(* progress their temporary directories are two different directories on   *)
(* the disk; the child process of a run works in that run's directory or   *)
(* in the project below it, and what the directory holds is of that run's  *)
(* template; a step of one run, the events of its child processes, its     *)
(* manifest merge, its snapshot and its Cleanup included, leaves the       *)
(* workspace of the other run in place and unchanged while that run is in  *)
(* progress.                                                               *)
(***************************************************************************)
C23_RunsOwnTheirWorkspaces ==
    /\ [](\A r \in RunIds :
            InProgress(r) =>
               /\ tempDir[r] \in DOMAIN fs
               /\ OwnProject(fs[tempDir[r]], templateOf(fieldValues[r]))
               /\ Awaiting(r) =>
                     child[r].cwd \in {tempDir[r],
                                       pathJoin(process.platform, tempDir[r], projectName)}
               /\ \A o \in RunIds \ {r} : InProgress(o) => tempDir[o] # tempDir[r])
    /\ [][\A r \in RunIds : \A o \in RunIds \ {r} :
            (StepOf(r) /\ InProgress(o)) =>
               /\ tempDir[o] \in DOMAIN fs'
               /\ fs'[tempDir[o]] = fs[tempDir[o]]
               /\ UNCHANGED <<pc[o], child[o], log[o], promise[o], tempDir[o]>>]_vars

\* Both runs are suspended with a project of their own on the disk: the
\* first, whose src cannot be listed, is about to be cleaned up, and the
\* second got a project without a manifest.
C23_Witness ==
    /\ pc["run1"] = "awaitInstall"
    /\ child["run1"].promise = "rejected"
    /\ pc["run2"] = "awaitShadcn"
    /\ tempDir["run1"] # tempDir["run2"]
    /\ Lookup(fs[tempDir["run1"]], projectName) # Absent
    /\ Lookup(fs[tempDir["run2"]], projectName) # Absent
    /\ ~Lookup(generated["run1"], "src").listable
    /\ Lookup(generated["run2"], "package.json") = Absent

(***************************************************************************)
(* The runs of scaffold under fair scheduling: a child process that was    *)
(* spawned does emit 'close' or 'error' (the proviso of the termination    *)
(* property), and the event loop of Node.js does run the continuation of   *)
(* an await whose promise has settled.                                     *)
(***************************************************************************)
ChildEvents(r) == ChildClose(r) \/ ChildError(r)

\* The continuation of call r runs: the await whose promise has settled is
\* left.  Of the steps of scaffold these are the three resumptions.
PcValues == {"idle", "awaitCreate", "awaitInstall", "awaitShadcn", "settled"}

Resumption(r) ==
    /\ Awaiting(r)
    /\ child[r].promise # "pending"
    /\ pc' \in [RunIds -> PcValues]
    /\ pc'[r] # pc[r]

Fairness ==
    \A r \in RunIds : WF_vars(ChildEvents(r)) /\ WF_pc(Resumption(r))

SpecFair == Init /\ [][Next]_vars /\ Fairness

\* The outcome a caller of scaffold may see: a FileMap, or one error.
Outcome(r) ==
    \/ promise[r].state = "resolved" /\ promise[r].reason = NoError
    \/ promise[r].state = "rejected" /\ promise[r].reason # NoError
                                     /\ promise[r].value = EmptyObject

CleanupEnded(l) == Did(l, "Cleanup", "ok") \/ Did(l, "Cleanup", "failed")

(***************************************************************************)
(* C24.  As claimed: when every spawned child process eventually emits     *)
(* 'close' or 'error', every run that was started eventually settles,      *)
(* resolved with a FileMap or rejected with one error, and the promise is  *)
(* never settled before Cleanup has ended.                                 *)
(***************************************************************************)
C24_CleanupBeforeEveryOutcome ==
    /\ \A r \in RunIds : (pc[r] # "idle") ~> (Settled(r) /\ Outcome(r))
    /\ [](\A r \in RunIds :
            promise[r].state # "pending" =>
               Settled(r) /\ Outcome(r) /\ CleanupEnded(log[r]))

(***************************************************************************)
(* C24, amended.  When every spawned child process eventually emits        *)
(* 'close' or 'error', every run that was started eventually settles,      *)
(* resolved with a FileMap or rejected with one error; the promise of a    *)
(* run that made its workspace is never settled before Cleanup has ended,  *)
(* a run that could not make its workspace rejects without Cleanup, and an *)
(* outcome, once delivered, stays.                                         *)
(***************************************************************************)
C24_EveryRunTerminates ==
    /\ \A r \in RunIds : (pc[r] # "idle") ~> (Settled(r) /\ Outcome(r))
    /\ [](\A r \in RunIds :
            /\ promise[r].state \in {"pending", "resolved", "rejected"}
            /\ promise[r].state # "pending" =>
                  /\ Settled(r) /\ Outcome(r)
                  /\ IF WorkspaceCreated(r) THEN CleanupEnded(log[r])
                     ELSE promise[r].state = "rejected" /\ ~Began(log[r], "Cleanup"))
    /\ [][\A r \in RunIds :
            promise[r].state # "pending" => promise'[r] = promise[r]]_vars

\* A run whose three commands all ended, the last one in failure, resolved.
C24_Witness ==
    \E r \in RunIds :
       /\ Settled(r)
       /\ Did(log[r], "UIInit", "failed")
       /\ promise[r].state = "resolved"
       /\ CleanupEnded(log[r])

\* The files under the root of call r with both of their paths: the key the
\* platform in use gives them and the path written with forward slashes.
NeutralPaths(r) ==
    LET here == FilesUnder(process.platform, generated[r], "", <<>>)
        neutral == FilesUnder("linux", generated[r], "", <<>>)
    IN  { [key |-> pair[1].path, path |-> pair[2].path,
           readable |-> pair[1].node.readable] :
             pair \in {p \in here \X neutral : p[1].trail = p[2].trail} }

(***************************************************************************)
(* C25.  The keys of a snapshot are written with platform-neutral          *)
(* separators: on every platform the key of a readable file is its path    *)
(* from the root with forward slashes, in a nested directory too, and a    *)
(* path of the removal list written with forward slashes removes the file  *)
(* it names.                                                               *)
(***************************************************************************)
C25_KeysArePlatformNeutral ==
    \A r \in RunIds :
       /\ pc[r] = "captured" =>
             DOMAIN promise[r].value =
                {f.path : f \in {n \in NeutralPaths(r) : n.readable}}
       /\ pc[r] = "filtered" =>
             \A f \in NeutralPaths(r) :
                f.path \in Range(filesToRemoveOf(moduleConfig[r]))
                   => f.key \notin DOMAIN promise[r].value

(***************************************************************************)
(* The two settling listeners of runCommand against any child: a listener  *)
(* runs for every event its emitter emits, and Node.js promises no order   *)
(* between 'error' and the end of a child ('exit' may or may not fire      *)
(* after an error has occurred).  Here 'close' comes once, with any code,  *)
(* and 'error' once, before it or after it.                                *)
(***************************************************************************)
\* The child emits 'close', whatever it has emitted before.
AnyClose(r) ==
    /\ pc[r] = "command"
    /\ ~child[r].closed
    /\ \E code \in CloseCodes \cup {SpawnFailedCode(process.platform)} :
          /\ child' = [child EXCEPT ![r] =
                 [onClose(@, code) EXCEPT !.closed = TRUE, !.exitCode = code]]
          /\ log' = [log EXCEPT ![r] =
                       Append(@, Event("close", code, onCloseConsole(child[r], code)))]
    /\ UNCHANGED <<process, fs, callers, moduleConfig, fieldValues, pc, tempDir,
                   generated, promise>>

\* The child emits 'error', whatever it has emitted before.
AnyError(r) ==
    /\ pc[r] = "command"
    /\ ~child[r].errored
    /\ LET err == SpawnError(process.platform)
       IN  /\ child' = [child EXCEPT ![r] = [onError(@, err) EXCEPT !.errored = TRUE]]
           /\ log' = [log EXCEPT ![r] = Append(@, Event("error", err, <<>>))]
    /\ UNCHANGED <<process, fs, callers, moduleConfig, fieldValues, pc, tempDir,
                   generated, promise>>

NextHandlers ==
    \E r \in RunIds :
       \/ StdoutData(r)
       \/ StderrData(r)
       \/ AnyClose(r)
       \/ AnyError(r)

SpecHandlers == InitCommand /\ [][NextHandlers]_vars

(***************************************************************************)
(* C26.  The promise of runCommand settles at most once, with the outcome  *)
(* of the first 'close' or 'error' event handled.  An event handled while  *)
(* the promise is pending settles it: 'error' rejects it, 'close' resolves *)
(* it for code 0 and rejects it otherwise.  An event handled after that    *)
(* changes neither the state of the promise nor its reason: a 'close' that *)
(* follows a launch error, with any code, code 0 included, leaves it       *)
(* rejected with the launch error, and an 'error' that follows a 'close'   *)
(* with code 0 leaves it resolved.  At every moment the outcome is that of *)
(* the first of the two events.                                            *)
(***************************************************************************)
C26_PromiseSettlesOnce ==
    [][\A r \in RunIds :
          (pc[r] = "command" /\ log'[r] # log[r]) =>
             LET e == log'[r][Len(log'[r])]
                 c == child[r]
                 d == child'[r]
                 settling == SettlingEvents(log'[r])
             IN  /\ c.promise # "pending" =>
                       d.promise = c.promise /\ d.reason = c.reason
                 /\ (c.promise = "pending" /\ e.event = "error") =>
                       /\ d.promise = "rejected"
                       /\ StartsWith(d.reason.message, "Failed to run ")
                 /\ (c.promise = "pending" /\ e.event = "close") =>
                       /\ d.promise = IF e.detail = ExitCode(0) THEN "resolved"
                                      ELSE "rejected"
                       /\ e.detail # ExitCode(0) =>
                             Contains(d.reason.message, " failed with exit code ")
                 /\ (c.promise = "pending" /\ e.event \in {"stdout", "stderr"}) =>
                       d.promise = "pending"
                 /\ (c.errored /\ ~c.closed /\ e.event = "close") =>
                       /\ d.promise = "rejected"
                       /\ d.reason = Error("Failed to run " \o c.command \o ": "
                                           \o SpawnError(process.platform).message)
                 /\ (c.closed /\ c.exitCode = ExitCode(0) /\ ~c.errored
                        /\ e.event = "error") =>
                       /\ d.promise = "resolved"
                       /\ d.reason = NoError
                 /\ settling # <<>> =>
                       d.promise =
                          IF settling[1].event = "close" /\ settling[1].detail = ExitCode(0)
                          THEN "resolved" ELSE "rejected"]_vars

\* A launch error, then a 'close' with code 0, which prints nothing: the
\* promise stays rejected with the launch error.
C26_Witness ==
    \E r \in RunIds :
       /\ pc[r] = "command"
       /\ Len(SettlingEvents(log[r])) = 2
       /\ SettlingEvents(log[r])[1].event = "error"
       /\ SettlingEvents(log[r])[2].event = "close"
       /\ SettlingEvents(log[r])[2].detail = ExitCode(0)
       /\ SettlingEvents(log[r])[2].console = <<>>
       /\ child[r].promise = "rejected"
       /\ child[r].reason = Error("Failed to run npx: spawn /bin/sh ENOENT")

\* The child process of call r has ended without an exit code.
KilledBySignal(c) == c.closed /\ c.exitCode = NullCode

(***************************************************************************)
(* C27.  A child process that ends without a numeric exit code, 'close'    *)
(* reporting null, is a failed command and never a successful one: the     *)
(* promise of runCommand is rejected then, with the error that names the   *)
(* code null when 'close' was the first event.  When the command is the    *)
(* generator or the install, scaffold does nothing more than Cleanup and   *)
(* rejects with that error.                                                *)
(***************************************************************************)
C27_NullExitCodeIsFailure ==
    /\ [](\A r \in RunIds :
            (Awaiting(r) /\ KilledBySignal(child[r])) =>
               /\ child[r].promise = "rejected"
               /\ ~child[r].errored =>
                     child[r].reason =
                        Error(child[r].description \o " failed with exit code null"))
    /\ [][\A r \in RunIds :
            (Resumes(r) /\ KilledBySignal(child[r])
                        /\ pc[r] \in {"awaitCreate", "awaitInstall"}) =>
               /\ Settled(r)'
               /\ promise'[r] = Rejected(child[r].reason)
               /\ log'[r] = log[r] \o <<Ev(AwaitedStep(r), "failed"),
                                        Ev("Cleanup", "start"),
                                        log'[r][Len(log'[r])]>>
               /\ log'[r][Len(log'[r])].step = "Cleanup"]_vars

\* The install was killed by a signal and the run was aborted.
C27_Witness ==
    \E r \in RunIds :
       /\ Settled(r)
       /\ Did(log[r], "Install", "failed")
       /\ ~Began(log[r], "UIInit") /\ ~Began(log[r], "Capture")
       /\ promise[r] =
             Rejected(Error("Installing dependencies failed with exit code null"))

\* A directory below the root cannot be listed, the root itself can.
SubdirectoryUnlistable(project) ==
    /\ project.kind = "dir"
    /\ project.listable
    /\ ~AllListable(project)

(***************************************************************************)
(* C28.  A subdirectory that cannot be listed is not passed over as a file *)
(* that cannot be read is: when the snapshot is taken of a project with    *)
(* such a subdirectory, Capture fails, no FileMap is kept and Filter does  *)
(* not begin, Cleanup runs all the same, and scaffold rejects with the     *)
(* error of the listing.                                                   *)
(***************************************************************************)
C28_UnlistableSubdirectoryIsFatal ==
    [][\A r \in RunIds :
          (Resumes(r) /\ Began(log'[r], "Capture")
                      /\ SubdirectoryUnlistable(Lookup(fs[tempDir[r]], projectName))) =>
             /\ Did(log'[r], "Capture", "failed")
             /\ ~Did(log'[r], "Capture", "ok")
             /\ ~Began(log'[r], "Filter")
             /\ Began(log'[r], "Cleanup") /\ CleanupEnded(log'[r])
             /\ Settled(r)'
             /\ promise'[r] = Rejected(ErrnoError("EACCES: permission denied, scandir"))
             /\ promise'[r].value = EmptyObject]_vars

\* Outside test mode, after install and UI-init: the snapshot met src, which
\* cannot be listed, and the run was rejected; Cleanup ran and met src too.
C28_Witness ==
    \E r \in RunIds :
       /\ Settled(r)
       /\ Did(log[r], "UIInit", "ok")
       /\ Did(log[r], "Capture", "failed")
       /\ Did(log[r], "Cleanup", "failed")
       /\ Lookup(Lookup(fs[tempDir[r]], projectName), "src").kind = "dir"
       /\ ~existsSync(Lookup(fs[tempDir[r]], projectName), "index.html")
       /\ SubdirectoryUnlistable(generated[r])
       /\ promise[r] = Rejected(ErrnoError("EACCES: permission denied, scandir"))

====
